---- MODULE Spec2Model ----
(***************************************************************************)
(* Model of the DKL / mutual-information core of the dkl-metric pipeline:  *)
(*   src/pipeline/utils/dkl.py   calculate_dkl, get_mutual_info            *)
(*   src/pipeline/1_clean.py     join_metro_data (the totals it writes)    *)
(*                                                                         *)
(* Numbers.  The code computes in IEEE-754 doubles.  A double is modelled  *)
(* as a record [k, d, c]:                                                  *)
(*   k = "nan" | "pinf" | "ninf"   the three non-finite values;            *)
(*   k = "fin"  the exact real (c[1] + SUM_{i>1} c[i]*log2(PrimeSeq[i]))/d *)
(*              with d > 0 and gcd(d, c[1], .., c[n]) = 1.                 *)
(* c[1] is the rational part (log2(2) = 1).  Every value the code forms    *)
(* from integer counts is of this shape: quotients of counts are rational, *)
(* log2 of a positive rational is an integer combination of log2(prime),   *)
(* and the code only ever multiplies or divides a log term by a rational.  *)
(* The model is therefore exact where the doubles round (relative error    *)
(* 2^-53), and it does not distinguish -0.0 from 0.0.                      *)
(***************************************************************************)
EXTENDS Integers, Sequences, FiniteSets, TLC

\* Largest raw count drawn for an input cell.
MaxCount == 2

(***************************************************************************)
(* Exact arithmetic on the modelled doubles                                *)
(***************************************************************************)
PrimeSeq == <<2, 3, 5, 7, 11, 13>>
NP == Len(PrimeSeq)
\* floor and ceiling of 10^6 * log2(PrimeSeq[i])
Log2Lo == <<1000000, 1584962, 2321928, 2807354, 3459431, 3700439>>
Log2Hi == <<1000000, 1584963, 2321929, 2807355, 3459432, 3700440>>

Abs(n) == IF n < 0 THEN -n ELSE n

RECURSIVE GCD(_, _)
GCD(a, b) == IF b = 0 THEN a ELSE GCD(b, a % b)

RECURSIVE GCDVec(_, _, _)
GCDVec(c, i, g) == IF i > NP THEN g ELSE GCDVec(c, i + 1, GCD(g, Abs(c[i])))

ZeroVec == [i \in 1..NP |-> 0]

NaN  == [k |-> "nan",  d |-> 1, c |-> ZeroVec]
PInf == [k |-> "pinf", d |-> 1, c |-> ZeroVec]
NInf == [k |-> "ninf", d |-> 1, c |-> ZeroVec]

\* The finite value (c[1] + SUM c[i]*log2(PrimeSeq[i])) / d in lowest terms, d # 0.
Norm(d, c) ==
    LET g == GCDVec(c, 1, Abs(d))
        s == IF d < 0 THEN -1 ELSE 1
    IN  [k |-> "fin", d |-> (s * d) \div g, c |-> [i \in 1..NP |-> (s * c[i]) \div g]]

\* The rational a/b, b # 0.
Rat(a, b) == Norm(b, [i \in 1..NP |-> IF i = 1 THEN a ELSE 0])
Zero == Rat(0, 1)

IsNaN(x) == x.k = "nan"
IsFin(x) == x.k = "fin"
IsRat(x) == IsFin(x) /\ \A i \in 2..NP : x.c[i] = 0

RECURSIVE SumLo(_, _)
SumLo(c, i) ==
    IF i > NP THEN 0
    ELSE (IF c[i] > 0 THEN c[i] * Log2Lo[i] ELSE c[i] * Log2Hi[i]) + SumLo(c, i + 1)

RECURSIVE SumHi(_, _)
SumHi(c, i) ==
    IF i > NP THEN 0
    ELSE (IF c[i] > 0 THEN c[i] * Log2Hi[i] ELSE c[i] * Log2Lo[i]) + SumHi(c, i + 1)

\* Sign of a finite value: 1, 0 or -1.  1, log2 3, log2 5, ... are linearly
\* independent over the rationals, so the value is 0 exactly when c is; otherwise
\* the sign is read off an interval enclosure, and a value the enclosure cannot
\* decide has no sign (evaluation stops rather than guess).
SgnFin(x) ==
    IF x.c = ZeroVec THEN 0
    ELSE IF SumLo(x.c, 1) > 0 THEN 1
    ELSE IF SumHi(x.c, 1) < 0 THEN -1
    ELSE CHOOSE s \in {} : TRUE

Sgn(x) == IF x.k = "pinf" THEN 1 ELSE IF x.k = "ninf" THEN -1 ELSE SgnFin(x)

\* x > 0, x == 0 and numpy.isfinite(x); comparisons with NaN are False.
Gt0(x) == ~IsNaN(x) /\ Sgn(x) = 1
Eq0(x) == IsFin(x) /\ x.c = ZeroVec
IsFinite(x) == IsFin(x)

\* x + y
AddF(x, y) ==
    IF IsNaN(x) \/ IsNaN(y) THEN NaN
    ELSE IF IsFin(x) /\ IsFin(y)
         THEN Norm(x.d * y.d, [i \in 1..NP |-> x.c[i] * y.d + y.c[i] * x.d])
    ELSE IF IsFin(x) THEN y
    ELSE IF IsFin(y) THEN x
    ELSE IF x.k = y.k THEN x
    ELSE NaN

\* x * y, where at least one finite factor is rational
MulF(x, y) ==
    IF IsNaN(x) \/ IsNaN(y) THEN NaN
    ELSE IF IsFin(x) /\ IsFin(y)
         THEN IF IsRat(x)
              THEN Norm(x.d * y.d, [i \in 1..NP |-> x.c[1] * y.c[i]])
              ELSE Norm(x.d * y.d, [i \in 1..NP |-> y.c[1] * x.c[i]])
    ELSE IF Sgn(x) = 0 \/ Sgn(y) = 0 THEN NaN
    ELSE IF Sgn(x) = Sgn(y) THEN PInf
    ELSE NInf

\* x / y with numpy's semantics (errstate ignored): 0/0 = NaN, x/0 = +-Inf.
\* A finite non-zero divisor is rational.
DivF(x, y) ==
    IF IsNaN(x) \/ IsNaN(y) THEN NaN
    ELSE IF IsFin(x) /\ IsFin(y)
         THEN IF Eq0(y)
              THEN IF Eq0(x) THEN NaN ELSE IF Sgn(x) = 1 THEN PInf ELSE NInf
              ELSE Norm(x.d * y.c[1], [i \in 1..NP |-> x.c[i] * y.d])
    ELSE IF IsFin(x) THEN Zero
    ELSE IF IsFin(y) THEN (IF Sgn(y) = Sgn(x) THEN PInf ELSE NInf)
    ELSE NaN

\* Exponent of the prime p in n >= 1
RECURSIVE Vp(_, _)
Vp(n, p) == IF n % p = 0 THEN 1 + Vp(n \div p, p) ELSE 0

RECURSIVE Pow(_, _)
Pow(b, e) == IF e = 0 THEN 1 ELSE b * Pow(b, e - 1)

RECURSIVE Smooth(_, _)
Smooth(n, i) == IF i > NP THEN 1 ELSE Pow(PrimeSeq[i], Vp(n, PrimeSeq[i])) * Smooth(n, i + 1)

\* log2 of the positive rational a/b, exact; a and b must factor over PrimeSeq
Log2Rat(a, b) ==
    IF Smooth(a, 1) = a /\ Smooth(b, 1) = b
    THEN Norm(1, [i \in 1..NP |-> Vp(a, PrimeSeq[i]) - Vp(b, PrimeSeq[i])])
    ELSE CHOOSE v \in {} : TRUE

\* numpy.log2(x): NaN for x < 0 or NaN, -Inf for 0
Log2F(x) ==
    IF IsNaN(x) \/ x.k = "ninf" THEN NaN
    ELSE IF x.k = "pinf" THEN PInf
    ELSE IF Sgn(x) = 1 THEN Log2Rat(x.c[1], x.d)
    ELSE IF Sgn(x) = 0 THEN NInf
    ELSE NaN

\* numpy.where(cond, a, b) on one element
Where(cond, a, b) == IF cond THEN a ELSE b

\* numpy.log2(x, where=(x > 0), out=zeros): the log where the mask holds, else the 0 of out
MaskedLog2(x) == IF Gt0(x) THEN Log2F(x) ELSE Zero

(***************************************************************************)
(* Tables.  A DataFrame is [cols, rows]: the set of its column names and   *)
(* the sequence of its rows (records).  An integer cell that may be        *)
(* missing is [na, v].                                                     *)
(***************************************************************************)
Cell(n) == [na |-> FALSE, v |-> n]
NA == [na |-> TRUE, v |-> 0]

\* Series.astype(float): a missing cell becomes NaN, an integer n becomes n.0
AsFloat(cell) == IF cell.na THEN NaN ELSE Rat(cell.v, 1)

Blocks == {"A", "B", "C"}
Vars == {"v1", "v2", "v3"}
\* Row order of the raw download: block by block, variable by variable
BlockSeq == <<"A", "B">>
VarSeq == <<"v1", "v2", "v3">>

\* label_df: variable -> variable_group, group_label
GroupOf(v) == IF v = "v3" THEN "g2" ELSE "g1"
LabelOf(v) == IF v = "v3" THEN "Race" ELSE "Household Income"
\* The CBSA of the blocks' counties in the tables handed to calculate_dkl
CbsaOf(b) == "M1"
TitleOf(b) == "Metro One"
\* Blocks A and B lie in Cook County, IL; block C in Lake County, IN
StateOf(b) == IF b = "C" THEN "IN" ELSE "IL"
\* 1_clean.py:152  county_fips = geoid[:5]
CountyOf(b) == IF b = "C" THEN "18089" ELSE "17031"

CountCols == {"block_estimate", "block_total", "cbsa_estimate", "cbsa_total"}
KeyCols == {"block_fips", "county_fips", "variable", "variable_group", "group_label",
            "cbsa_fips", "cbsa_title", "state_codes"}
InputCols == KeyCols \cup CountCols
DklCols == {"p_ni", "p_ni_yj", "p_yj", "p_yj_ni", "dkl_log_i", "dkl_log_j",
            "dkl_block_j", "dkl_bin_i", "dkl_block", "dkl_bin"}

MkRow(b, v, be, bt, ce, ct) ==
    [block_fips |-> b, county_fips |-> CountyOf(b), variable |-> v,
     variable_group |-> GroupOf(v),
     group_label |-> LabelOf(v), cbsa_fips |-> CbsaOf(b), cbsa_title |-> TitleOf(b),
     state_codes |-> StateOf(b),
     block_estimate |-> be, block_total |-> bt, cbsa_estimate |-> ce, cbsa_total |-> ct]

NoTable == [cols |-> {}, rows |-> <<>>]

\* Faulty variant: a sum that does not skip NaN entries (skipna=False)
RECURSIVE SumSkipNa_keepna(_)
SumSkipNa_keepna(s) ==
    IF s = <<>> THEN Zero ELSE AddF(Head(s), SumSkipNa_keepna(Tail(s)))

\* Series.sum() / groupby(...).sum(): NaN entries are skipped, the empty sum is 0
RECURSIVE SumSkipNa(_)
SumSkipNa(s) ==
    IF s = <<>> THEN Zero
    ELSE AddF(IF IsNaN(Head(s)) THEN Zero ELSE Head(s), SumSkipNa(Tail(s)))

(***************************************************************************)
(* calculate_dkl.  Each step takes a row of `out` as the code has built it *)
(* so far and adds the columns of one block of assignments.                *)
(***************************************************************************)
\* Faulty variant: p_ni taken from the bin's count instead of the block's total
P_ni_frombin(r) ==
    Where(Gt0(AsFloat(r.cbsa_total)),
          DivF(AsFloat(r.block_estimate), AsFloat(r.cbsa_total)), Zero)

\* Faulty variant: p_ni without the cbsa_total > 0 mask
P_ni_unmasked(r) == DivF(AsFloat(r.block_total), AsFloat(r.cbsa_total))

\* dkl.py:79  p_ni = where(cbsa_total > 0, block_total / cbsa_total, 0.0)
P_ni(r) ==
    Where(Gt0(AsFloat(r.cbsa_total)),
          DivF(AsFloat(r.block_total), AsFloat(r.cbsa_total)), Zero)

\* dkl.py:80  p_ni_yj = where(cbsa_estimate > 0, block_estimate / cbsa_estimate, 0.0)
P_ni_yj(r) ==
    Where(Gt0(AsFloat(r.cbsa_estimate)),
          DivF(AsFloat(r.block_estimate), AsFloat(r.cbsa_estimate)), Zero)

\* Faulty variant: p_yj with numerator and denominator exchanged
P_yj_inverted(r) ==
    Where(Gt0(AsFloat(r.cbsa_total)),
          DivF(AsFloat(r.cbsa_total), AsFloat(r.cbsa_estimate)), Zero)

\* dkl.py:81  p_yj = where(cbsa_total > 0, cbsa_estimate / cbsa_total, 0.0)
P_yj(r) ==
    Where(Gt0(AsFloat(r.cbsa_total)),
          DivF(AsFloat(r.cbsa_estimate), AsFloat(r.cbsa_total)), Zero)

\* Faulty variant: p_yj_ni without the block_total > 0 mask
P_yj_ni_unmasked(r) == DivF(AsFloat(r.block_estimate), AsFloat(r.block_total))

\* dkl.py:82  p_yj_ni = where(block_total > 0, block_estimate / block_total, 0.0)
P_yj_ni(r) ==
    Where(Gt0(AsFloat(r.block_total)),
          DivF(AsFloat(r.block_estimate), AsFloat(r.block_total)), Zero)

\* dkl.py:79-82
WithProbs(r) ==
    r @@ [p_ni |-> P_ni(r), p_ni_yj |-> P_ni_yj(r), p_yj |-> P_yj(r), p_yj_ni |-> P_yj_ni(r)]

\* Faulty variant: the ratio inverted, p_yj / p_yj_ni
Ratio_i_inverted(r) == Where(Gt0(r.p_yj), DivF(r.p_yj, r.p_yj_ni), Zero)

\* Faulty variants: ratio_i taken against the block's weight p_ni; ratio_j inverted
Ratio_i_crossed(r) == Where(Gt0(r.p_yj), DivF(r.p_yj_ni, r.p_ni), Zero)
Ratio_j_inverted(r) == Where(Gt0(r.p_ni), DivF(r.p_ni, r.p_ni_yj), Zero)

\* dkl.py:86-87, read from the columns just written
Ratio_i(r) == Where(Gt0(r.p_yj), DivF(r.p_yj_ni, r.p_yj), Zero)
Ratio_j(r) == Where(Gt0(r.p_ni), DivF(r.p_ni_yj, r.p_ni), Zero)

\* dkl.py:93-94  np.where(np.isfinite(log), log, 0.0)
FiniteOrZero(l) == Where(IsFinite(l), l, Zero)

\* Faulty variant: the log of the docstring formula, log2(p_yj_ni / p_yj), with no masking
Dkl_log_i_unmasked(r) == Log2F(Ratio_i(r))

\* dkl.py:90, 93 and 91, 94
Dkl_log_i(r) == FiniteOrZero(MaskedLog2(Ratio_i(r)))
Dkl_log_j(r) == FiniteOrZero(MaskedLog2(Ratio_j(r)))

WithLogs(r) == r @@ [dkl_log_i |-> Dkl_log_i(r), dkl_log_j |-> Dkl_log_j(r)]

\* dkl.py:97-98
Dkl_block_j(r) == MulF(r.p_yj_ni, r.dkl_log_i)
Dkl_bin_i(r) == MulF(r.p_ni_yj, r.dkl_log_j)

WithParts(r) == r @@ [dkl_block_j |-> Dkl_block_j(r), dkl_bin_i |-> Dkl_bin_i(r)]

\* dkl.py:79-98 on one row
RowColumns(r) == WithParts(WithLogs(WithProbs(r)))

\* Faulty variant: dkl_block grouped by block alone, across variable groups
BlockKey_nogroup(r) == <<r.block_fips>>

\* Faulty variants: dkl_block grouped by CBSA instead of block; dkl_bin grouped without the bin
BlockKey_cbsa(r) == <<r.variable_group, r.cbsa_fips>>
BinKey_novariable(r) == <<r.variable_group, r.cbsa_fips>>

\* dkl.py:101 and 104: the grouping keys
BlockKey(r) == <<r.variable_group, r.block_fips>>
BinKey(r) == <<r.variable_group, r.cbsa_fips, r.variable>>

\* dkl.py:101  groupby(["variable_group", "block_fips"])["dkl_block_j"].transform("sum"):
\* for the row r, the sum of dkl_block_j over the rows that share its key
Dkl_block(rows, r) ==
    LET grp == SelectSeq(rows, LAMBDA q : BlockKey(q) = BlockKey(r))
    IN  SumSkipNa([j \in 1..Len(grp) |-> grp[j].dkl_block_j])

\* dkl.py:104  groupby(["variable_group", "cbsa_fips", "variable"])["dkl_bin_i"].transform("sum")
Dkl_bin(rows, r) ==
    LET grp == SelectSeq(rows, LAMBDA q : BinKey(q) = BinKey(r))
    IN  SumSkipNa([j \in 1..Len(grp) |-> grp[j].dkl_bin_i])

\* Faulty variant: rows of an empty CBSA (cbsa_total = 0) are filtered out
RECURSIVE MapRowColumns_dropempty(_)
MapRowColumns_dropempty(rows) ==
    IF rows = <<>> THEN <<>>
    ELSE (IF Gt0(AsFloat(Head(rows).cbsa_total)) THEN <<RowColumns(Head(rows))>> ELSE <<>>)
         \o MapRowColumns_dropempty(Tail(rows))

\* dkl.py:70-98: the per-row columns of every row, in the input's order
RECURSIVE MapRowColumns(_)
MapRowColumns(rows) ==
    IF rows = <<>> THEN <<>> ELSE <<RowColumns(Head(rows))>> \o MapRowColumns(Tail(rows))

RECURSIVE WithAggregates(_, _)
WithAggregates(all, rows) ==
    IF rows = <<>> THEN <<>>
    ELSE <<Head(rows) @@ [dkl_block |-> Dkl_block(all, Head(rows)),
                          dkl_bin |-> Dkl_bin(all, Head(rows))]>>
         \o WithAggregates(all, Tail(rows))

\* Faulty variant: only the four count columns are looked up; an absent grouping column
\* is not noticed
DklRequired_countsonly == {"block_estimate", "block_total", "cbsa_estimate", "cbsa_total"}

\* The columns calculate_dkl reads (lines 73-76, 101, 104)
DklRequired == {"block_estimate", "block_total", "cbsa_estimate", "cbsa_total",
                "variable_group", "block_fips", "cbsa_fips", "variable"}

\* Faulty variant: out = df, so every column is assigned on the caller's table
CallerTable_aliased(t, result) == result

\* dkl.py:70  out = df.copy(): the caller's table after the call, all columns
\* having been assigned on the copy
CallerTable(t, result) == t

\* calculate_dkl(df): either raises (pandas' KeyError on a missing column) or
\* returns a new table; arg is the caller's df as the call leaves it.
calculate_dkl(t) ==
    IF ~(DklRequired \subseteq t.cols)
    THEN [raised |-> "KeyError", value |-> NoTable, arg |-> t]
    ELSE LET part == MapRowColumns(t.rows)
             result == [cols |-> t.cols \cup DklCols, rows |-> WithAggregates(part, part)]
         IN  [raised |-> "none", value |-> result, arg |-> CallerTable(t, result)]

(***************************************************************************)
(* get_mutual_info                                                         *)
(***************************************************************************)
\* Faulty variant: state_codes is not among the selected columns
MiRequired_nostate == {"block_fips", "variable_group", "group_label", "block_total",
                       "dkl_block", "p_ni", "cbsa_title", "cbsa_total"}

\* dkl.py:132-134: the columns selected from dkl_df
MiRequired == {"block_fips", "variable_group", "group_label", "block_total",
               "dkl_block", "p_ni", "cbsa_title", "cbsa_total", "state_codes"}

\* dkl.py:135  drop_duplicates(subset=["block_fips", "variable_group"]), keeping the first
DedupKey(r) == <<r.block_fips, r.variable_group>>

\* Faulty variant: every bin row is kept
DropDuplicates_none(rows) == rows

DropDuplicates(rows) ==
    LET F[i \in 0..Len(rows)] ==
            IF i = 0 THEN <<>>
            ELSE IF \A j \in 1..(i - 1) : DedupKey(rows[j]) # DedupKey(rows[i])
                 THEN Append(F[i - 1], rows[i])
                 ELSE F[i - 1]
    IN  F[Len(rows)]

\* dkl.py:148  groupby(["cbsa_title", "state_codes", "group_label"])
MiKey(r) == <<r.cbsa_title, r.state_codes, r.group_label>>

\* Faulty variant: the weighted sum of the docstring, without the division by the total weight
WeightedMean_unnormalised(group) ==
    SumSkipNa([j \in 1..Len(group) |-> MulF(group[j].dkl_block, group[j].p_ni)])

\* Faulty variant: no test of the total weight before the division
WeightedMean_unguarded(group) ==
    LET weights == [j \in 1..Len(group) |-> group[j].p_ni]
    IN  DivF(SumSkipNa([j \in 1..Len(group) |-> MulF(group[j].dkl_block, weights[j])]),
             SumSkipNa(weights))

\* dkl.py:139-144  _weighted_mean(group)
WeightedMean(group) ==
    LET weights == [j \in 1..Len(group) |-> group[j].p_ni]
        total_weight == SumSkipNa(weights)
    IN  IF Eq0(total_weight) THEN Zero
        ELSE DivF(SumSkipNa([j \in 1..Len(group) |-> MulF(group[j].dkl_block, weights[j])]),
                  total_weight)

\* get_mutual_info(dkl_df): raises KeyError on a missing column, else one record
\* per group of the deduplicated rows (the order of the result is not modelled).
\* block_level is a new frame (selection, drop_duplicates, copy): arg, the
\* caller's dkl_df after the call, is dkl_df.
get_mutual_info(t) ==
    IF ~(MiRequired \subseteq t.cols)
    THEN [raised |-> "KeyError", value |-> {}, arg |-> t]
    ELSE LET block_level == DropDuplicates(t.rows)
             keys == {MiKey(block_level[i]) : i \in 1..Len(block_level)}
         IN  [raised |-> "none", arg |-> t,
              value |-> {[cbsa_title |-> k[1], state_codes |-> k[2], group_label |-> k[3],
                          avg_dkl_cbsa_pop |->
                              WeightedMean(SelectSeq(block_level, LAMBDA r : MiKey(r) = k))] :
                         k \in keys}]

(***************************************************************************)
(* join_metro_data: the totals of the cleaned table (1_clean.py:169-182)   *)
(***************************************************************************)
\* pd.to_numeric(errors="coerce").fillna(0).astype(int)
ToInt(cell) == IF cell.na THEN 0 ELSE cell.v

RECURSIVE SumInt(_)
SumInt(s) == IF s = <<>> THEN 0 ELSE Head(s) + SumInt(Tail(s))

\* The block_estimate column of a group of raw rows, summed
SumEstimates(grp) == SumInt([j \in 1..Len(grp) |-> ToInt(grp[j].estimate)])

\* A missing string cell (NaN in a column of strings)
NaStr == "<NA>"

\* str.strip() on the strings of the delineation files
Strip(x) ==
    CASE x = " " -> ""
      [] x = " M1" -> "M1"
      [] x = " M2" -> "M2"
      [] OTHER -> x

\* cbsa_xwalk.py:198  fillna("").astype(str).str.strip()
CleanStr(x) == IF x = NaStr THEN "" ELSE Strip(x)

\* Faulty variant: the crosswalk keeps every row of a county
DropDuplicateCounties_none(rows) == rows

\* cbsa_xwalk.py:200  drop_duplicates(subset=["county_fips"]), keeping the first
DropDuplicateCounties(rows) ==
    LET F[i \in 0..Len(rows)] ==
            IF i = 0 THEN <<>>
            ELSE IF \A j \in 1..(i - 1) : rows[j].county_fips # rows[i].county_fips
                 THEN Append(F[i - 1], rows[i])
                 ELSE F[i - 1]
    IN  F[Len(rows)]

\* cbsa_xwalk.py:193-202  get_cbsa_xwalk on the parsed delineation rows: rows with
\* no CBSA code are dropped, the strings cleaned, one row kept per county
get_cbsa_xwalk(parsed) ==
    LET metro == SelectSeq(parsed,
                     LAMBDA r : r.cbsa_fips # NaStr /\ Strip(r.cbsa_fips) # "")
        clean == [i \in 1..Len(metro) |->
                     [county_fips |-> CleanStr(metro[i].county_fips),
                      cbsa_fips |-> CleanStr(metro[i].cbsa_fips),
                      cbsa_title |-> CleanStr(metro[i].cbsa_title)]]
    IN  DropDuplicateCounties(clean)

\* 1_clean.py:164  merge(cbsa_xwalk, on="county_fips", how="left"): every raw row
\* in order, once per crosswalk row of its county, or once with missing CBSA
\* columns when the county has none
RECURSIVE MergeXwalk(_, _)
MergeXwalk(rws, xw) ==
    IF rws = <<>> THEN <<>>
    ELSE LET q == Head(rws)
             hits == SelectSeq(xw, LAMBDA x : x.county_fips = CountyOf(q.geoid))
         IN  (IF hits = <<>>
              THEN <<q @@ [cbsa_fips |-> NaStr, cbsa_title |-> NaStr]>>
              ELSE [j \in 1..Len(hits) |->
                       q @@ [cbsa_fips |-> hits[j].cbsa_fips,
                             cbsa_title |-> hits[j].cbsa_title]])
             \o MergeXwalk(Tail(rws), xw)

\* 1_clean.py:167  keep only metro counties
MetroRows(rws) == SelectSeq(rws, LAMBDA q : q.cbsa_fips # NaStr /\ q.cbsa_fips # "")

RawBlockKey(q) == <<q.geoid, GroupOf(q.variable)>>
RawBinKey(q) == <<q.cbsa_fips, q.variable>>
RawCbsaKey(q) == <<q.cbsa_fips, GroupOf(q.variable)>>

\* 1_clean.py:174  groupby(["geoid", "variable_group"])["block_estimate"].transform("sum")
Block_total(rws, r) == SumEstimates(SelectSeq(rws, LAMBDA q : RawBlockKey(q) = RawBlockKey(r)))
\* 1_clean.py:181  groupby(["cbsa_fips", "variable"])
Cbsa_estimate(rws, r) == SumEstimates(SelectSeq(rws, LAMBDA q : RawBinKey(q) = RawBinKey(r)))
\* 1_clean.py:182  groupby(["cbsa_fips", "variable_group"])
Cbsa_total(rws, r) == SumEstimates(SelectSeq(rws, LAMBDA q : RawCbsaKey(q) = RawCbsaKey(r)))

\* join_metro_data(raw_df, label_df, cbsa_xwalk, state_xwalk).
\* 1_clean.py:146  rename(columns={"state": "state_codes", ...}): state_codes is the
\* state the row was downloaded for, not a property of the CBSA
join_metro_data(raw_df, cbsa_xwalk) ==
    LET rws == MetroRows(MergeXwalk(raw_df, cbsa_xwalk))
    IN  [cols |-> InputCols,
         rows |-> [i \in 1..Len(rws) |->
                     [MkRow(rws[i].geoid, rws[i].variable,
                            Cell(ToInt(rws[i].estimate)),
                            Cell(Block_total(rws, rws[i])),
                            Cell(Cbsa_estimate(rws, rws[i])),
                            Cell(Cbsa_total(rws, rws[i])))
                      EXCEPT !.state_codes = rws[i].state,
                             !.cbsa_fips = rws[i].cbsa_fips,
                             !.cbsa_title = rws[i].cbsa_title]]]

\* 4_mutual_info.py:92-94: the columns save_mi_file looks for before the call
SaveRequired == {"block_fips", "variable_group", "group_label", "block_total",
                 "dkl_block", "p_ni", "cbsa_title", "cbsa_total", "state_codes"}

\* The MI parquet of one (var_group, year): absent, or written with a content
NoFile == [exists |-> FALSE, content |-> {}]

\* Faulty variant: no test of the MI file's existence, an existing file is rewritten
save_mi_file_overwrite(dkl_file, mi_file) ==
    IF ~dkl_file.exists
    THEN [mi_file |-> mi_file, logged |-> <<"warning">>, raised |-> "none",
          outcome |-> "no_dkl", value |-> {}]
    ELSE IF \E c \in SaveRequired : c \notin dkl_file.content.cols
    THEN [mi_file |-> mi_file, logged |-> <<"info", "error">>, raised |-> "none",
          outcome |-> "returned", value |-> {}]
    ELSE [mi_file |-> [exists |-> TRUE, content |-> get_mutual_info(dkl_file.content).value],
          logged |-> <<"info", "info">>, raised |-> "none",
          outcome |-> "saved", value |-> get_mutual_info(dkl_file.content).value]

\* 4_mutual_info.py:64-102  save_mi_file on the DKL file and the MI file of one
\* (var_group, year_tag), each [exists, content]: warn and return when the DKL file
\* is absent; skip when the MI file is there; log an error and return when a
\* column is missing; else compute and write.  Returns the MI file afterwards,
\* the levels logged, and the exception that leaves the function, if any.
save_mi_file(dkl_file, mi_file) ==
    IF ~dkl_file.exists
    THEN [mi_file |-> mi_file, logged |-> <<"warning">>, raised |-> "none",
          outcome |-> "no_dkl", value |-> {}]
    ELSE IF mi_file.exists
    THEN [mi_file |-> mi_file, logged |-> <<"info">>, raised |-> "none",
          outcome |-> "skipped", value |-> {}]
    ELSE IF \E c \in SaveRequired : c \notin dkl_file.content.cols
    THEN [mi_file |-> mi_file, logged |-> <<"info", "error">>, raised |-> "none",
          outcome |-> "returned", value |-> {}]
    ELSE LET res == get_mutual_info(dkl_file.content)
         IN  IF res.raised = "none"
             THEN [mi_file |-> [exists |-> TRUE, content |-> res.value],
                   logged |-> <<"info", "info">>, raised |-> "none",
                   outcome |-> "saved", value |-> res.value]
             ELSE [mi_file |-> mi_file, logged |-> <<"info">>, raised |-> res.raised,
                   outcome |-> "raised", value |-> res.value]

\* The states whose downloads are concatenated (fetch_all_states)
States == {"IL", "IN"}

\* The parsed delineation file of the pipeline's metro: both counties in CBSA M1
StdParsed ==
    <<[county_fips |-> "17031", cbsa_fips |-> "M1", cbsa_title |-> "Metro One"],
      [county_fips |-> "18089", cbsa_fips |-> "M1", cbsa_title |-> "Metro One"]>>

(***************************************************************************)
(* The files of the pipeline.  A path is the sequence of its components    *)
(* below DATA_DIR, a component the sequence of the pieces its text is      *)
(* built from: the fixed pieces of the f-string as written, a variable     *)
(* group as one piece, a year digit by digit.                              *)
(***************************************************************************)
Digit == <<"0", "1", "2", "3", "4", "5", "6", "7", "8", "9">>

\* str(year) of a four-digit year
Str(year) ==
    <<Digit[(year \div 1000) + 1], Digit[((year \div 100) % 10) + 1],
      Digit[((year \div 10) % 10) + 1], Digit[(year % 10) + 1]>>

\* int(year_tag) of a string of digits
RECURSIVE IntOf(_)
IntOf(tag) ==
    IF tag = <<>> THEN 0
    ELSE 10 * IntOf(SubSeq(tag, 1, Len(tag) - 1))
         + ((CHOOSE n \in 1..10 : Digit[n] = tag[Len(tag)]) - 1)

\* str(year)[2:]
YrShort(year) == SubSeq(Str(year), 3, Len(Str(year)))

\* config.py: the ACS 5-year entries of YEAR_CONFIGS, each with all four groups
AcsYears == {2009, 2010, 2015, 2020, 2021, 2022, 2023}
VarGroups == {"race", "income", "educ", "empl"}
Available(year, vg) == year \in AcsYears /\ vg \in VarGroups

\* 0_download.py:94-99, 116  _output_dir(year, "acs5") / f"{vg}_blkgrp_all_states_{year}.parquet"
S0_out_path(year, vg) ==
    <<<<"acs5_block_">> \o Str(year) \o <<"_data">>, <<"raw">>,
      <<vg, "_blkgrp_all_states_">> \o Str(year) \o <<".parquet">>>>

\* 1_clean.py:256-257  _raw_path
S1_raw_path(year, vg) ==
    <<<<"acs5_block_">> \o Str(year) \o <<"_data">>, <<"raw">>,
      <<vg, "_blkgrp_all_states_">> \o Str(year) \o <<".parquet">>>>

\* 1_clean.py:260-264  _clean_path
S1_clean_path(year, vg) ==
    <<<<"acs5_block_">> \o Str(year) \o <<"_data">>,
      <<vg, "_">> \o YrShort(year) \o <<"_blkgrp_all_states.parquet">>>>

\* 2_calculate_dkl.py:36-40  _clean_path (block-group level)
S2_clean_path(year, vg) ==
    <<<<"acs5_block_">> \o Str(year) \o <<"_data">>,
      <<vg, "_">> \o YrShort(year) \o <<"_blkgrp_all_states.parquet">>>>

\* 2_calculate_dkl.py:43-47  _dkl_path (block-group level)
S2_dkl_path(year, vg) ==
    <<<<"acs5_block_">> \o Str(year) \o <<"_data">>,
      <<"dkl_", vg, "_">> \o YrShort(year) \o <<"_blkgrp_all_states.parquet">>>>

\* Faulty variant: every two-digit tag is taken for a year of the 1900s
S4_full_year_1900(year_tag) == <<"1", "9">> \o year_tag

\* 4_mutual_info.py:47  full_year = "20" + year_tag if int(year_tag) < 50 else "19" + year_tag
S4_full_year(year_tag) ==
    IF IntOf(year_tag) < 50 THEN <<"2", "0">> \o year_tag ELSE <<"1", "9">> \o year_tag

\* 4_mutual_info.py:42-50  _dkl_path (block-group level)
S4_dkl_path(year_tag, vg) ==
    <<<<"acs5_block_">> \o S4_full_year(year_tag) \o <<"_data">>,
      <<"dkl_", vg, "_">> \o year_tag \o <<"_blkgrp_all_states.parquet">>>>

\* 4_mutual_info.py:53-61  _mi_path (block-group level)
S4_mi_path(year_tag, vg) ==
    <<<<"acs5_block_">> \o S4_full_year(year_tag) \o <<"_data">>,
      <<"mi_", vg, "_">> \o year_tag \o <<"_blkgrp_all_states.parquet">>>>

\* 3_income_2010.py:240  DATA_DIR / "dropbox" / "2010acs_all.csv"
CsvPath == <<<<"dropbox">>, <<"2010acs_all.csv">>>>

\* 3_income_2010.py:258, 272-275: out_dir is the literal "acs5_block_2010_data", the
\* name the literal "dkl_income_10_blkgrp_all_states.parquet" for the 2020 crosswalk
\* and f"cbsa_{str(cbsa_yr)[2:]}_dkl_income_10_blkgrp_all_states.parquet" otherwise
S3_out_path(cbsa_yr) ==
    <<<<"acs5_block_", "2", "0", "1", "0", "_data">>,
      IF cbsa_yr = 2020
      THEN <<"dkl_", "income", "_", "1", "0", "_blkgrp_all_states.parquet">>
      ELSE <<"cbsa_">> \o YrShort(cbsa_yr)
           \o <<"_", "dkl_", "income", "_", "1", "0", "_blkgrp_all_states.parquet">>>>

\* The file system: a function from the paths that exist to their contents
Exists(f, p) == p \in DOMAIN f
\* DataFrame.to_parquet(path): the file is created or replaced
Write(f, p, content) == [q \in DOMAIN f \cup {p} |-> IF q = p THEN content ELSE f[q]]

(***************************************************************************)
(* Stage 0: the download                                                   *)
(***************************************************************************)
\* config.py STATE_CODES, in the order fetch_all_states visits them
StateCodes == <<"IL", "IN">>

\* ACS_VAR_GROUPS[vg]: the variable codes of a group
CodesOf(vg) ==
    IF vg = "income" THEN <<"v1", "v2">> ELSE IF vg = "race" THEN <<"v3">> ELSE <<>>

\* What the Census API holds: one block group per state (A in IL, C in IN) and
\* its estimate for each variable
ApiBlock(st) == IF st = "IL" THEN "A" ELSE "C"
ApiEstimate(b, v) ==
    CASE b = "A" /\ v = "v1" -> 1
      [] b = "A" /\ v = "v2" -> 3
      [] b = "C" /\ v = "v1" -> 2
      [] b = "C" /\ v = "v2" -> 2
      [] b = "A" -> 2
      [] OTHER -> 1

\* census_api.py:93-190  fetch_block_group_data for one state when the request succeeds
fetch_block_group_data(vg, st) ==
    [i \in 1..Len(CodesOf(vg)) |->
        [geoid |-> ApiBlock(st), variable |-> CodesOf(vg)[i],
         estimate |-> Cell(ApiEstimate(ApiBlock(st), CodesOf(vg)[i])), state |-> st]]

\* Faulty variant: a failed state empties the frames collected so far
RECURSIVE fetch_all_states_reset(_, _, _)
fetch_all_states_reset(vg, states, ok) ==
    IF states = <<>> THEN [value |-> <<>>, logged |-> <<>>]
    ELSE LET st == states[Len(states)]
             rest == fetch_all_states_reset(vg, SubSeq(states, 1, Len(states) - 1), ok)
         IN  IF st \in ok
             THEN [value |-> rest.value \o fetch_block_group_data(vg, st), logged |-> rest.logged]
             ELSE [value |-> <<>>, logged |-> Append(rest.logged, "error")]

\* census_api.py:193-241  fetch_all_states: the states are visited in order; ok is
\* the set of states whose request succeeds.  A failure is logged as an error and
\* the loop goes on; the frames collected are concatenated (an empty frame with
\* the four columns when there is none).
RECURSIVE fetch_all_states(_, _, _)
fetch_all_states(vg, states, ok) ==
    IF states = <<>> THEN [value |-> <<>>, logged |-> <<>>]
    ELSE LET st == states[Len(states)]
             rest == fetch_all_states(vg, SubSeq(states, 1, Len(states) - 1), ok)
         IN  IF st \in ok
             THEN [value |-> rest.value \o fetch_block_group_data(vg, st), logged |-> rest.logged]
             ELSE [value |-> rest.value, logged |-> Append(rest.logged, "error")]

(***************************************************************************)
(* Stage 3: the 2010 income CSV                                            *)
(***************************************************************************)
\* HINC_LABELS, for the two brackets of the modelled CSV
HincCols == <<"hinc000", "hinc010">>
HincLabel(code) == IF code = "hinc000" THEN "Less than $10,000" ELSE "$10,000 to $14,999"

\* 2010acs_all.csv: one line per block group; geoid carries the prefix "15000US"
\* before the 12 characters of the block group ("A", "C" stand for those)
CsvFile ==
    <<[geoid |-> <<"15000US", "A">>, state |-> "IL", hinc000 |-> Cell(2), hinc010 |-> Cell(2)],
      [geoid |-> <<"15000US", "C">>, state |-> "IN", hinc000 |-> Cell(1), hinc010 |-> Cell(3)]>>

\* 3_income_2010.py:100-135  load_2010_income: melt to one row per (line, hinc
\* column), column by column; the estimate coerced to int; label from HINC_LABELS;
\* block_total the sum over the rows of the geoid
load_2010_income(csv) ==
    LET n == Len(csv)
        long == [k \in 1..(n * Len(HincCols)) |->
                    LET line == csv[((k - 1) % n) + 1]
                        code == HincCols[((k - 1) \div n) + 1]
                    IN  [geoid |-> line.geoid, state |-> line.state, hinc_code |-> code,
                         block_estimate |-> ToInt(line[code]),
                         label |-> HincLabel(code), group_label |-> "Household Income"]]
    IN  [k \in 1..Len(long) |->
            long[k] @@ [block_total |->
                SumInt([j \in 1..Len(long) |->
                          IF long[j].geoid = long[k].geoid THEN long[j].block_estimate ELSE 0])]]

\* 3_income_2010.py:153-155: a geoid longer than 12 characters is cut to its last 12
Last12(geoid) == geoid[Len(geoid)]

\* Positions of the sort keys in the order of their strings ("$" sorts before "L")
CountyRank(c) == IF c = "17031" THEN 1 ELSE 2
BlockRank(b) == IF b = "A" THEN 1 ELSE IF b = "B" THEN 2 ELSE 3
LabelRank(l) == IF l = "$10,000 to $14,999" THEN 1 ELSE 2
\* row a sorts strictly before row b by (county_fips, block_fips, label)
SortsBefore(a, b) ==
    \/ CountyRank(a.county_fips) < CountyRank(b.county_fips)
    \/ /\ a.county_fips = b.county_fips
       /\ \/ BlockRank(a.block_fips) < BlockRank(b.block_fips)
          \/ a.block_fips = b.block_fips /\ LabelRank(a.label) < LabelRank(b.label)

\* 3_income_2010.py:209  sort_values(["county_fips", "block_fips", "label"])
RECURSIVE SortValues(_)
SortValues(rows) ==
    IF rows = <<>> THEN <<>>
    ELSE LET i == CHOOSE i \in 1..Len(rows) :
                      /\ \A j \in 1..Len(rows) : ~SortsBefore(rows[j], rows[i])
                      /\ \A j \in 1..(i - 1) : SortsBefore(rows[i], rows[j])
         IN  <<rows[i]>> \o SortValues(SubSeq(rows, 1, i - 1) \o SubSeq(rows, i + 1, Len(rows)))

\* The columns of the stage-3 table that are modelled
S3Cols == InputCols \cup {"label"}

\* 3_income_2010.py:142-209  join_with_cbsa: the geoid cut to the block group, the
\* crosswalk merged on the county, non-metro rows dropped, the totals recomputed
\* over the rows kept, variable = label, variable_group = "B19001", rows sorted
join_with_cbsa(df_long, cbsa_xwalk) ==
    LET cut == [k \in 1..Len(df_long) |-> [df_long[k] EXCEPT !.geoid = Last12(@)]]
        kept == MetroRows(MergeXwalk(cut, cbsa_xwalk))
        Sum(k, a, b) ==
            SumInt([j \in 1..Len(kept) |->
                      IF kept[j][a] = kept[k][a] /\ kept[j][b] = kept[k][b]
                      THEN kept[j].block_estimate ELSE 0])
    IN  [cols |-> S3Cols,
         rows |-> SortValues(
             [k \in 1..Len(kept) |->
                 [block_fips |-> kept[k].geoid, county_fips |-> CountyOf(kept[k].geoid),
                  cbsa_fips |-> kept[k].cbsa_fips, cbsa_title |-> kept[k].cbsa_title,
                  state_codes |-> kept[k].state,
                  variable |-> kept[k].label, variable_group |-> "B19001",
                  group_label |-> kept[k].group_label, label |-> kept[k].label,
                  block_estimate |-> Cell(kept[k].block_estimate),
                  block_total |-> Cell(Sum(k, "geoid", "group_label")),
                  cbsa_estimate |-> Cell(Sum(k, "cbsa_fips", "label")),
                  cbsa_total |-> Cell(Sum(k, "cbsa_fips", "group_label"))]])]

\* 3_income_2010.py:217-226  calc_dkl_income_2010: variable_group = group_label, then calculate_dkl
calc_dkl_income_2010(t) ==
    calculate_dkl([cols |-> t.cols,
                   rows |-> [k \in 1..Len(t.rows) |->
                               [t.rows[k] EXCEPT !.variable_group = t.rows[k].group_label]]])

\* The delineation file get_cbsa_xwalk downloads for a year format: in the 2009
\* file Lake County, IN is not yet part of the metro
Delineation(year_format) ==
    IF year_format = 2009
    THEN <<[county_fips |-> "17031", cbsa_fips |-> "M1", cbsa_title |-> "Metro One"]>>
    ELSE StdParsed

(***************************************************************************)
(* Stage 4: the main loop over (variable group, year tag)                  *)
(***************************************************************************)
\* 4_mutual_info.py:123-125: the nested loops, in execution order
MiGroups == <<"income", "race", "educ", "empl">>
MiYears == <<<<"1", "0">>, <<"1", "5">>, <<"2", "0">>>>
MiCombos ==
    [k \in 1..(Len(MiGroups) * Len(MiYears)) |->
        [vg |-> MiGroups[((k - 1) \div Len(MiYears)) + 1],
         yr |-> MiYears[((k - 1) % Len(MiYears)) + 1]]]

\* A file of the file system as save_mi_file sees it
FileAt(f, p, none) ==
    IF Exists(f, p) THEN [exists |-> TRUE, content |-> f[p]]
    ELSE [exists |-> FALSE, content |-> none]

\* One call save_mi_file(vg, yr) on the file system f.  On a DKL file without
\* rows the outcome of groupby(...).apply(...).reset_index(name=...) depends on
\* the pandas build: empty_raises tells whether it raises (TypeError) or yields
\* an empty table.
SaveMiCall(f, c, empty_raises) ==
    LET dkl_file == FileAt(f, S4_dkl_path(c.yr, c.vg), NoTable)
        mi_file == FileAt(f, S4_mi_path(c.yr, c.vg), {})
    IN  IF /\ dkl_file.exists /\ ~mi_file.exists /\ empty_raises
           /\ SaveRequired \subseteq dkl_file.content.cols
           /\ dkl_file.content.rows = <<>>
        THEN [mi_file |-> mi_file, logged |-> <<"info">>, raised |-> "TypeError",
              outcome |-> "raised", value |-> {}]
        ELSE save_mi_file(dkl_file, mi_file)

\* Faulty variant: the loop stops at the first combination whose call did not
\* write a file
RECURSIVE MiLoop_stopping(_, _, _)
MiLoop_stopping(f, combos, empty_raises) ==
    IF combos = <<>> THEN [fs |-> f, logged |-> <<>>, raised |-> "none"]
    ELSE LET c == Head(combos)
             res == SaveMiCall(f, c, empty_raises)
         IN  IF res.outcome # "saved"
             THEN [fs |-> f, logged |-> <<res.logged>>, raised |-> res.raised]
             ELSE LET rest == MiLoop_stopping(Write(f, S4_mi_path(c.yr, c.vg), res.mi_file.content),
                                              Tail(combos), empty_raises)
                  IN  [fs |-> rest.fs, logged |-> <<res.logged>> \o rest.logged,
                       raised |-> rest.raised]

\* 4_mutual_info.py:118-126  __main__: save_mi_file for each combination in turn;
\* an exception leaving a call ends the run.  logged holds the levels logged by
\* each call made, in order.
RECURSIVE MiLoop(_, _, _)
MiLoop(f, combos, empty_raises) ==
    IF combos = <<>> THEN [fs |-> f, logged |-> <<>>, raised |-> "none"]
    ELSE LET c == Head(combos)
             res == SaveMiCall(f, c, empty_raises)
             f1 == IF res.outcome = "saved"
                   THEN Write(f, S4_mi_path(c.yr, c.vg), res.mi_file.content)
                   ELSE f
         IN  IF res.raised # "none"
             THEN [fs |-> f1, logged |-> <<res.logged>>, raised |-> res.raised]
             ELSE LET rest == MiLoop(f1, Tail(combos), empty_raises)
                  IN  [fs |-> rest.fs, logged |-> <<res.logged>> \o rest.logged,
                       raised |-> rest.raised]

VARIABLES raw, df, out, mi, err, pc, saved, log, parsed, xwalk, fs, call
vars == <<raw, df, out, mi, err, pc, saved, log, parsed, xwalk, fs, call>>

\* No stage of the file pipeline has been called
NoCall == [fn |-> "none", year |-> 0, vg |-> ""]

\* 1_clean.py:270  cbsa_xwalk = get_cbsa_xwalk(cbsa_year)
GetCbsaXwalk ==
    /\ pc = "xwalk"
    /\ xwalk' = get_cbsa_xwalk(parsed)
    /\ pc' = "raw"
    /\ UNCHANGED <<raw, df, out, mi, err, saved, log, parsed, fs, call>>

\* 1_clean.py: df = join_metro_data(raw_df, ...)
JoinMetroData ==
    /\ pc = "raw"
    /\ df' = join_metro_data(raw, xwalk)
    /\ pc' = "clean"
    /\ UNCHANGED <<raw, out, mi, err, saved, log, parsed, xwalk, fs, call>>

\* 2_calculate_dkl.py:71  dkl_df = calculate_dkl(df)
CalculateDkl ==
    /\ pc = "clean"
    /\ LET res == calculate_dkl(df)
       IN  /\ out' = res.value
           /\ df' = res.arg
           /\ err' = res.raised
           /\ pc' = IF res.raised = "none" THEN "dkl" ELSE "dkl_raised"
    /\ UNCHANGED <<raw, mi, saved, log, parsed, xwalk, fs, call>>

\* get_mutual_info(dkl_df) called directly on the table calculate_dkl returned
GetMutualInfo ==
    /\ pc = "dkl"
    /\ LET res == get_mutual_info(out)
       IN  /\ mi' = res.value
           /\ out' = res.arg
           /\ err' = res.raised
           /\ pc' = IF res.raised = "none" THEN "mi" ELSE "mi_raised"
    /\ UNCHANGED <<raw, df, saved, log, parsed, xwalk, fs, call>>

\* 4_mutual_info.py:100-101 run on the DKL file holding `out` (the file exists
\* once calculate_dkl has returned) with `saved` as the MI file
SaveMiFile ==
    /\ pc = "dkl"
    /\ LET res == save_mi_file([exists |-> TRUE, content |-> out], saved)
       IN  /\ saved' = res.mi_file
           /\ log' = log \o res.logged
           /\ mi' = IF res.outcome \in {"saved", "raised"} THEN res.value ELSE mi
           /\ err' = IF res.outcome \in {"saved", "raised"} THEN res.raised ELSE err
           /\ pc' = CASE res.outcome = "skipped" -> "save_skipped"
                      [] res.outcome = "returned" -> "save_returned"
                      [] res.outcome = "saved" -> "saved"
                      [] OTHER -> "mi_raised"
    /\ UNCHANGED <<raw, df, out, parsed, xwalk, fs, call>>

CountVals == 0..MaxCount
\* Cells of an unvalidated table: a count, a negative number or a missing value
CellVals == {NA} \cup {Cell(n) : n \in -1..MaxCount}

\* One-row tables with arbitrary cells
RowTables ==
    {[cols |-> InputCols, rows |-> <<MkRow("A", "v1", be, bt, ce, ct)>>] :
        be \in CellVals, bt \in CellVals, ce \in CellVals, ct \in CellVals}

\* Three-row tables (block A with two bins, block B with one) of non-negative
\* counts whose totals need not be the sums of the estimates: the blocks'
\* totals, the CBSA's total for v1 and the CBSA's group total are arbitrary
GroupTables ==
    {[cols |-> InputCols,
      rows |-> <<MkRow("A", "v1", Cell(e[1]), Cell(t[1]), Cell(c), Cell(g)),
                 MkRow("A", "v2", Cell(e[2]), Cell(t[1]), Cell(e[2]), Cell(g)),
                 MkRow("B", "v1", Cell(e[3]), Cell(t[2]), Cell(c), Cell(g))>>] :
        e \in [1..3 -> CountVals], t \in [1..2 -> CountVals],
        c \in CountVals, g \in CountVals}

\* One-row tables of counts with one column absent
LackingTables ==
    {[cols |-> InputCols \ {col},
      rows |-> <<MkRow("A", "v1", Cell(be), Cell(bt), Cell(bt), Cell(bt))>>] :
        col \in InputCols, be \in CountVals, bt \in CountVals}

\* Two-row tables of one block with a bin in each of two variable groups, the
\* CBSA's counts being MaxCount and the block's counts arbitrary
TwoGroupTables ==
    {[cols |-> InputCols,
      rows |-> <<MkRow("A", "v1", Cell(e[1]), Cell(t[1]), Cell(MaxCount), Cell(MaxCount)),
                 MkRow("A", "v3", Cell(e[2]), Cell(t[2]), Cell(MaxCount), Cell(MaxCount))>>] :
        e \in [1..2 -> CountVals], t \in [1..2 -> CountVals]}

\* One group and one metro: block A with bins 10 and 90, block B with bins 50
\* and 50; the totals are the sums (100 per block, 60 and 140 per bin, 200 in all)
ScenarioTable ==
    [cols |-> InputCols,
     rows |-> <<MkRow("A", "v1", Cell(10), Cell(100), Cell(60), Cell(200)),
                MkRow("A", "v2", Cell(90), Cell(100), Cell(140), Cell(200)),
                MkRow("B", "v1", Cell(50), Cell(100), Cell(60), Cell(200)),
                MkRow("B", "v2", Cell(50), Cell(100), Cell(140), Cell(200))>>]

\* Tables handed to calculate_dkl by an arbitrary caller
Init ==
    /\ raw = <<>>
    /\ df \in RowTables \cup GroupTables \cup LackingTables \cup TwoGroupTables
                \cup {ScenarioTable}
    /\ out = NoTable
    /\ mi = {}
    /\ err = "none"
    /\ pc = "clean"
    /\ saved = NoFile
    /\ log = <<>>
    /\ parsed = <<>>
    /\ xwalk = <<>>
    /\ fs = <<>>
    /\ call = NoCall

Next == CalculateDkl \/ GetMutualInfo \/ SaveMiFile

Spec == Init /\ [][Next]_vars

\* The second block group of the download: block B of IL or block C of IN
SecondBlock(st) == IF st = "IL" THEN "B" ELSE "C"

\* census_api.py:170-174  estimate = int(raw), or None when raw is missing or not a
\* number: any integer the API returns is kept, a negative one included
RawEstimates == {NA} \cup {Cell(n) : n \in -1..MaxCount}

\* The raw download: one row per block group and variable.  Block A lies in IL;
\* block B, of the same CBSA, lies in IL or across the state line in IN.  The
\* estimates are counts, except one (block A, v2) that is any raw estimate.
RawTables ==
    {[i \in 1..(Len(BlockSeq) * Len(VarSeq)) |->
        [geoid |-> IF i <= Len(VarSeq) THEN BlockSeq[1] ELSE SecondBlock(sB),
         variable |-> VarSeq[((i - 1) % Len(VarSeq)) + 1],
         estimate |-> IF i = 2 THEN x ELSE Cell(e[i]),
         state |-> IF i <= Len(VarSeq) THEN StateOf(BlockSeq[1]) ELSE sB]] :
        e \in [1..(Len(BlockSeq) * Len(VarSeq)) -> CountVals],
        x \in RawEstimates, sB \in States}

\* The pipeline from the raw download on
InitClean ==
    /\ raw \in RawTables
    /\ df = NoTable
    /\ out = NoTable
    /\ mi = {}
    /\ err = "none"
    /\ pc = "raw"
    /\ saved = NoFile
    /\ log = <<>>
    /\ parsed = StdParsed
    /\ xwalk = get_cbsa_xwalk(StdParsed)
    /\ fs = <<>>
    /\ call = NoCall

NextClean == JoinMetroData \/ CalculateDkl \/ GetMutualInfo \/ SaveMiFile

SpecClean == InitClean /\ [][NextClean]_vars

\* The CBSA code cells of a delineation file: missing, empty, blank, or a code
\* with or without surrounding blanks
XwalkCodes == {NaStr, "", " ", "M1", " M2"}
TitleFor(code) ==
    IF Strip(code) = "M1" THEN "Metro One"
    ELSE IF Strip(code) = "M2" THEN "Metro Two" ELSE NaStr

\* Parsed delineation files of three rows over the two counties: a county may be
\* listed more than once, with or without a CBSA, or not at all
ParsedFiles ==
    {[i \in 1..3 |-> [county_fips |-> c[i], cbsa_fips |-> k[i], cbsa_title |-> TitleFor(k[i])]] :
        c \in [1..3 -> {"17031", "18089"}], k \in [1..3 -> XwalkCodes]}

\* Raw downloads of one variable for block A (Cook, IL) and block C (Lake, IN)
CountyRawTables ==
    {<<[geoid |-> "A", variable |-> "v1", estimate |-> Cell(e[1]), state |-> StateOf("A")],
       [geoid |-> "C", variable |-> "v1", estimate |-> Cell(e[2]), state |-> StateOf("C")]>> :
        e \in [1..2 -> CountVals]}

\* clean_year from the delineation file on
InitXwalk ==
    /\ raw \in CountyRawTables
    /\ parsed \in ParsedFiles
    /\ xwalk = <<>>
    /\ df = NoTable
    /\ out = NoTable
    /\ mi = {}
    /\ err = "none"
    /\ pc = "xwalk"
    /\ saved = NoFile
    /\ log = <<>>
    /\ fs = <<>>
    /\ call = NoCall

NextXwalk == GetCbsaXwalk \/ JoinMetroData

SpecXwalk == InitXwalk /\ [][NextXwalk]_vars

(***************************************************************************)
(* The pipeline's stages run on the file system, in any order and any      *)
(* number of times.  log holds, for each call the latest run made, the     *)
(* levels that call logged; err the exception that ended the run.          *)
(***************************************************************************)
\* The year and the variable group the stages 0-2 are run for
FileYears == {2010}
FileGroups == {"income"}

tables == <<raw, df, out, mi, pc, saved, parsed, xwalk>>

\* 0_download.py:105-132  download_year(year, [vg])
DownloadYear(year, vg) ==
    /\ pc = "files"
    /\ LET out_path == S0_out_path(year, vg)
       IN  IF ~Available(year, vg)
           THEN fs' = fs /\ log' = <<<<"warning">>>>
           ELSE IF Exists(fs, out_path)
           THEN fs' = fs /\ log' = <<<<"info">>>>
           ELSE \E ok \in SUBSET States :
                    LET res == fetch_all_states(vg, StateCodes, ok)
                    IN  /\ fs' = Write(fs, out_path, res.value)
                        /\ log' = <<<<"info">> \o res.logged \o <<"info">>>>
    /\ err' = "none"
    /\ call' = [fn |-> "download_year", year |-> year, vg |-> vg]
    /\ UNCHANGED tables

\* 1_clean.py:267-298  clean_year(year, [vg]) with the default cbsa_year = 2020
CleanYear(year, vg) ==
    /\ pc = "files"
    /\ LET cbsa_xwalk == get_cbsa_xwalk(Delineation(2020))
           raw_path == S1_raw_path(year, vg)
           out_path == S1_clean_path(year, vg)
       IN  IF ~Available(year, vg)
           THEN fs' = fs /\ log' = <<<<"info", "warning">>>>
           ELSE IF ~Exists(fs, raw_path)
           THEN fs' = fs /\ log' = <<<<"info", "error">>>>
           ELSE IF Exists(fs, out_path)
           THEN fs' = fs /\ log' = <<<<"info", "info">>>>
           ELSE /\ fs' = Write(fs, out_path, join_metro_data(fs[raw_path], cbsa_xwalk))
                /\ log' = <<<<"info", "info", "info">>>>
    /\ err' = "none"
    /\ call' = [fn |-> "clean_year", year |-> year, vg |-> vg]
    /\ UNCHANGED tables

\* 2_calculate_dkl.py:50-73  run_dkl_for_year(year, [vg])
RunDklForYear(year, vg) ==
    /\ pc = "files"
    /\ LET clean_path == S2_clean_path(year, vg)
           out_path == S2_dkl_path(year, vg)
       IN  IF ~Available(year, vg)
           THEN fs' = fs /\ log' = <<<<"warning">>>> /\ err' = "none"
           ELSE IF ~Exists(fs, clean_path)
           THEN fs' = fs /\ log' = <<<<"error">>>> /\ err' = "none"
           ELSE IF Exists(fs, out_path)
           THEN fs' = fs /\ log' = <<<<"info">>>> /\ err' = "none"
           ELSE LET res == calculate_dkl(fs[clean_path])
                IN  IF res.raised = "none"
                    THEN /\ fs' = Write(fs, out_path, res.value)
                         /\ log' = <<<<"info", "info">>>> /\ err' = "none"
                    ELSE fs' = fs /\ log' = <<<<"info">>>> /\ err' = res.raised
    /\ call' = [fn |-> "run_dkl_for_year", year |-> year, vg |-> vg]
    /\ UNCHANGED tables

\* 3_income_2010.py:272-277: df_dkl, the value calc_dkl_income_2010 returned, is
\* written to the output path of the crosswalk year, replacing what is there
Income2010Write(f, cbsa_yr, res) ==
    IF res.raised = "none"
    THEN [fs |-> Write(f, S3_out_path(cbsa_yr), res.value), raised |-> "none"]
    ELSE [fs |-> f, raised |-> res.raised]

\* Faulty variant: an output that exists is kept, as the other stages do
Income2010Year_skipping(f, df_long, cbsa_yr) ==
    IF Exists(f, S3_out_path(cbsa_yr))
    THEN [fs |-> f, raised |-> "none"]
    ELSE Income2010Write(f, cbsa_yr,
             calc_dkl_income_2010(
                 join_with_cbsa(df_long, get_cbsa_xwalk(Delineation(cbsa_yr)))))

\* 3_income_2010.py:266-278: the body of the loop for one crosswalk year on the
\* file system f
Income2010Year(f, df_long, cbsa_yr) ==
    Income2010Write(f, cbsa_yr,
        calc_dkl_income_2010(join_with_cbsa(df_long, get_cbsa_xwalk(Delineation(cbsa_yr)))))

\* 3_income_2010.py:243  --cbsa-years default
CbsaYears == <<2020, 2009>>

\* 3_income_2010.py:266-278: the loop over the crosswalk years; each pass logs
\* three lines (processing, crosswalk loaded, saved), an exception ends the run
RECURSIVE IncomeLoop(_, _, _)
IncomeStep(step, df_long, cbsa_years) ==
    IF step.raised # "none"
    THEN [fs |-> step.fs, raised |-> step.raised, logged |-> <<"info", "info">>]
    ELSE LET rest == IncomeLoop(step.fs, df_long, cbsa_years)
         IN  [fs |-> rest.fs, raised |-> rest.raised,
              logged |-> <<"info", "info", "info">> \o rest.logged]
IncomeLoop(f, df_long, cbsa_years) ==
    IF cbsa_years = <<>> THEN [fs |-> f, raised |-> "none", logged |-> <<>>]
    ELSE IncomeStep(Income2010Year(f, df_long, Head(cbsa_years)), df_long, Tail(cbsa_years))

\* 3_income_2010.py:247-278  __main__ with the default arguments: exit(1) when the
\* CSV is absent; else the CSV is loaded and an output written per crosswalk year
IncomeMain ==
    /\ pc = "files"
    /\ IF ~Exists(fs, CsvPath)
       THEN fs' = fs /\ log' = <<<<"error">>>> /\ err' = "SystemExit"
       ELSE \E res \in {IncomeLoop(fs, load_2010_income(fs[CsvPath]), CbsaYears)} :
                /\ fs' = res.fs
                /\ err' = res.raised
                /\ log' = <<<<"info">> \o res.logged>>
    /\ call' = [fn |-> "3_income_2010", year |-> 2010, vg |-> "income"]
    /\ UNCHANGED tables

\* 4_mutual_info.py:118-126  __main__ (block-group level)
MiMain ==
    /\ pc = "files"
    /\ \E empty_raises \in BOOLEAN :
          LET res == MiLoop(fs, MiCombos, empty_raises)
          IN  /\ fs' = res.fs
              /\ log' = res.logged
              /\ err' = res.raised
    /\ call' = [fn |-> "4_mutual_info", year |-> 0, vg |-> ""]
    /\ UNCHANGED tables

\* The race DKL file of 2010 as an earlier run of the stages 0-2 leaves it when
\* every state's download succeeded
RaceDklFile ==
    calculate_dkl(join_metro_data(fetch_all_states("race", StateCodes, States).value,
                                  get_cbsa_xwalk(Delineation(2020)))).value

\* Before the stages are run for income: the 2010 income CSV has been placed in
\* data/dropbox, or not; the race DKL file of 2010 is there from an earlier run, or not
InitFiles ==
    /\ raw = <<>>
    /\ df = NoTable
    /\ out = NoTable
    /\ mi = {}
    /\ err = "none"
    /\ pc = "files"
    /\ saved = NoFile
    /\ log = <<>>
    /\ parsed = <<>>
    /\ xwalk = <<>>
    /\ fs \in {Write(f, S2_dkl_path(2010, "race"), RaceDklFile) :
                    f \in {<<>>, Write(<<>>, CsvPath, CsvFile)}}
               \cup {<<>>, Write(<<>>, CsvPath, CsvFile)}
    /\ call = NoCall

NextFiles ==
    \/ \E year \in FileYears, vg \in FileGroups : DownloadYear(year, vg)
    \/ \E year \in FileYears, vg \in FileGroups : CleanYear(year, vg)
    \/ \E year \in FileYears, vg \in FileGroups : RunDklForYear(year, vg)
    \/ IncomeMain
    \/ MiMain

SpecFiles == InitFiles /\ [][NextFiles]_vars

(***************************************************************************)
(* Properties                                                              *)
(***************************************************************************)
\* The four counts of a row are present and >= 0
NonNeg(r) ==
    /\ ~r.block_estimate.na /\ r.block_estimate.v >= 0
    /\ ~r.block_total.na /\ r.block_total.v >= 0
    /\ ~r.cbsa_estimate.na /\ r.cbsa_estimate.v >= 0
    /\ ~r.cbsa_total.na /\ r.cbsa_total.v >= 0

\* x < 0
Lt0(x) == ~IsNaN(x) /\ Sgn(x) = -1

\* p is the rational n/d (d > 0), by cross-multiplication
IsQuot(p, n, d) == IsRat(p) /\ p.c[1] * d = n * p.d
QuotOrZero(p, n, d) == IF d > 0 THEN IsQuot(p, n, d) ELSE p = Zero

OutIdx == 1..Len(out.rows)

\* C1: for every row with non-negative counts each probability column is its
\* quotient when the denominator is positive and exactly 0 when it is 0.
C1_Probabilities ==
    \A i \in OutIdx :
        LET r == out.rows[i]
        IN  NonNeg(r) =>
              /\ QuotOrZero(r.p_ni, r.block_total.v, r.cbsa_total.v)
              /\ QuotOrZero(r.p_ni_yj, r.block_estimate.v, r.cbsa_estimate.v)
              /\ QuotOrZero(r.p_yj, r.cbsa_estimate.v, r.cbsa_total.v)
              /\ QuotOrZero(r.p_yj_ni, r.block_estimate.v, r.block_total.v)

\* C1 witness: a computed row with one zero denominator under a positive
\* numerator (p_ni masked to 0) and one proper quotient (p_yj_ni = 1/2)
C1_Witness ==
    \E i \in OutIdx :
        LET r == out.rows[i]
        IN  /\ NonNeg(r)
            /\ r.cbsa_total.v = 0 /\ r.block_total.v = 2 /\ r.block_estimate.v = 1
            /\ r.p_ni = Zero
            /\ r.p_yj_ni = Rat(1, 2)

\* A row with non-negative counts one of whose three denominators is 0
HasZeroTotal(r) ==
    NonNeg(r) /\ (r.cbsa_total.v = 0 \/ r.block_total.v = 0 \/ r.cbsa_estimate.v = 0)

\* The counts of a row are ordered as in a table whose totals are sums
Ordered(r) ==
    /\ NonNeg(r)
    /\ r.block_estimate.v <= r.block_total.v /\ r.block_total.v <= r.cbsa_total.v
    /\ r.block_estimate.v <= r.cbsa_estimate.v /\ r.cbsa_estimate.v <= r.cbsa_total.v

\* C2 as stated: in a row with a zero cbsa_total, block_total or cbsa_estimate
\* all four probability columns and both log columns are 0.
C2_AllZero ==
    \A i \in OutIdx :
        LET r == out.rows[i]
        IN  (HasZeroTotal(r) /\ Ordered(r)) =>
              /\ r.p_ni = Zero /\ r.p_ni_yj = Zero /\ r.p_yj = Zero /\ r.p_yj_ni = Zero
              /\ r.dkl_log_i = Zero /\ r.dkl_log_j = Zero

\* C2 amended: in such a row all six columns are finite, both log columns are 0,
\* and every probability column whose numerator or denominator is 0 is 0 (a
\* column whose numerator and denominator are both positive keeps its quotient).
C2_ClosureOverZero ==
    \A i \in OutIdx :
        LET r == out.rows[i]
            be == r.block_estimate.v
            bt == r.block_total.v
            ce == r.cbsa_estimate.v
            ct == r.cbsa_total.v
        IN  HasZeroTotal(r) =>
              /\ IsFinite(r.p_ni) /\ IsFinite(r.p_ni_yj)
              /\ IsFinite(r.p_yj) /\ IsFinite(r.p_yj_ni)
              /\ r.dkl_log_i = Zero /\ r.dkl_log_j = Zero
              /\ (bt = 0 \/ ct = 0) => r.p_ni = Zero
              /\ (be = 0 \/ ce = 0) => r.p_ni_yj = Zero
              /\ (ce = 0 \/ ct = 0) => r.p_yj = Zero
              /\ (be = 0 \/ bt = 0) => r.p_yj_ni = Zero
              /\ (bt > 0 /\ ct > 0) => IsQuot(r.p_ni, bt, ct) /\ r.p_ni # Zero
              /\ (be > 0 /\ ce > 0) => IsQuot(r.p_ni_yj, be, ce) /\ r.p_ni_yj # Zero
              /\ (ce > 0 /\ ct > 0) => IsQuot(r.p_yj, ce, ct) /\ r.p_yj # Zero
              /\ (be > 0 /\ bt > 0) => IsQuot(r.p_yj_ni, be, bt) /\ r.p_yj_ni # Zero

\* C2 witness: an empty block (block_total = 0) in a populated CBSA; p_yj stays 1/2
C2_Witness ==
    \E i \in OutIdx :
        LET r == out.rows[i]
        IN  /\ Ordered(r)
            /\ r.block_total.v = 0 /\ r.cbsa_estimate.v = 1 /\ r.cbsa_total.v = 2
            /\ r.p_yj = Rat(1, 2)
            /\ r.p_ni = Zero /\ r.p_yj_ni = Zero /\ r.p_ni_yj = Zero
            /\ r.dkl_log_i = Zero /\ r.dkl_log_j = Zero

\* The products of the primes with positive (negative) coefficient in l
RECURSIVE PosPow(_, _)
PosPow(c, i) ==
    IF i > NP THEN 1
    ELSE (IF c[i] > 0 THEN Pow(PrimeSeq[i], c[i]) ELSE 1) * PosPow(c, i + 1)
RECURSIVE NegPow(_, _)
NegPow(c, i) ==
    IF i > NP THEN 1
    ELSE (IF c[i] < 0 THEN Pow(PrimeSeq[i], -c[i]) ELSE 1) * NegPow(c, i + 1)

\* l = log2(x) for a positive rational x, stated as 2^l = x
IsLog2(l, x) ==
    /\ IsFin(l) /\ l.d = 1 /\ IsRat(x)
    /\ PosPow(l.c, 1) * x.d = NegPow(l.c, 1) * x.c[1]

\* l is the masked log of the ratio x
IsMaskedLog(l, x) == IF Gt0(x) THEN IsLog2(l, x) ELSE l = Zero

\* C3: ratio_i is 0 when p_yj = 0, ratio_j is 0 when p_ni = 0, each log column is
\* log2 of its ratio when the ratio is > 0 and 0 otherwise, and for rows with
\* non-negative counts neither log column is NaN or infinite.
C3_MaskedLogs ==
    \A i \in OutIdx :
        LET r == out.rows[i]
        IN  NonNeg(r) =>
              /\ Eq0(r.p_yj) => Ratio_i(r) = Zero
              /\ Eq0(r.p_ni) => Ratio_j(r) = Zero
              /\ IsFinite(r.dkl_log_i) /\ IsFinite(r.dkl_log_j)
              /\ IsMaskedLog(r.dkl_log_i, Ratio_i(r))
              /\ IsMaskedLog(r.dkl_log_j, Ratio_j(r))

\* C3 witness: one table holding a row whose ratio_i is positive with a non-zero
\* log and a row whose p_yj is 0 with the log masked to 0
C3_Witness ==
    \E i \in OutIdx, j \in OutIdx :
        LET r == out.rows[i]
            q == out.rows[j]
        IN  /\ NonNeg(r) /\ NonNeg(q)
            /\ Gt0(Ratio_i(r)) /\ Lt0(r.dkl_log_i) /\ Gt0(Ratio_j(r)) /\ Lt0(r.dkl_log_j)
            /\ Eq0(q.p_yj) /\ q.block_total.v > 0 /\ q.cbsa_total.v > 0
            /\ q.dkl_log_i = Zero

\* No count of the row is missing (the count columns are integer columns)
NoMissing(r) ==
    ~r.block_estimate.na /\ ~r.block_total.na /\ ~r.cbsa_estimate.na /\ ~r.cbsa_total.na

\* Plain sums of dkl_block_j and dkl_bin_i over a set of rows of out
RECURSIVE SumBlockJ(_)
SumBlockJ(S) ==
    IF S = {} THEN Zero
    ELSE LET j == CHOOSE j \in S : TRUE
         IN  AddF(out.rows[j].dkl_block_j, SumBlockJ(S \ {j}))
RECURSIVE SumBinI(_)
SumBinI(S) ==
    IF S = {} THEN Zero
    ELSE LET j == CHOOSE j \in S : TRUE
         IN  AddF(out.rows[j].dkl_bin_i, SumBinI(S \ {j}))

SameBlock(i, j) ==
    /\ out.rows[i].variable_group = out.rows[j].variable_group
    /\ out.rows[i].block_fips = out.rows[j].block_fips
SameBin(i, j) ==
    /\ out.rows[i].variable_group = out.rows[j].variable_group
    /\ out.rows[i].cbsa_fips = out.rows[j].cbsa_fips
    /\ out.rows[i].variable = out.rows[j].variable

\* C4: dkl_block_j = p_yj_ni * dkl_log_i, dkl_block of a row is the sum of
\* dkl_block_j over the rows sharing its (variable_group, block_fips), and rows
\* sharing that key carry the same dkl_block (tables whose counts are all present).
C4_DklBlockSum ==
    (\A i \in OutIdx : NoMissing(out.rows[i])) =>
    \A i \in OutIdx :
        /\ out.rows[i].dkl_block_j = MulF(out.rows[i].p_yj_ni, out.rows[i].dkl_log_i)
        /\ out.rows[i].dkl_block = SumBlockJ({j \in OutIdx : SameBlock(i, j)})
        /\ \A j \in OutIdx : SameBlock(i, j) => out.rows[j].dkl_block = out.rows[i].dkl_block

\* C4 witness: two bins of one block with different non-zero contributions, and a
\* second block of the same group whose dkl_block differs
C4_Witness ==
    \E i \in OutIdx, j \in OutIdx, k \in OutIdx :
        /\ i # j /\ SameBlock(i, j) /\ ~SameBlock(i, k)
        /\ out.rows[i].variable_group = out.rows[k].variable_group
        /\ out.rows[i].dkl_block_j # Zero /\ out.rows[j].dkl_block_j # Zero
        /\ out.rows[i].dkl_block_j # out.rows[j].dkl_block_j
        /\ out.rows[i].dkl_block # out.rows[i].dkl_block_j
        /\ out.rows[k].dkl_block # Zero
        /\ out.rows[k].dkl_block # out.rows[i].dkl_block

\* C5: dkl_bin_i = p_ni_yj * dkl_log_j, dkl_bin of a row is the sum of dkl_bin_i
\* over the rows sharing its (variable_group, cbsa_fips, variable), and rows
\* sharing that key carry the same dkl_bin (tables whose counts are all present).
C5_DklBinSum ==
    (\A i \in OutIdx : NoMissing(out.rows[i])) =>
    \A i \in OutIdx :
        /\ out.rows[i].dkl_bin_i = MulF(out.rows[i].p_ni_yj, out.rows[i].dkl_log_j)
        /\ out.rows[i].dkl_bin = SumBinI({j \in OutIdx : SameBin(i, j)})
        /\ \A j \in OutIdx : SameBin(i, j) => out.rows[j].dkl_bin = out.rows[i].dkl_bin

\* C5 witness: two blocks of one bin with different non-zero contributions, and
\* another bin of the same CBSA and group whose dkl_bin differs
C5_Witness ==
    \E i \in OutIdx, j \in OutIdx, k \in OutIdx :
        /\ i # j /\ SameBin(i, j) /\ ~SameBin(i, k)
        /\ out.rows[i].variable_group = out.rows[k].variable_group
        /\ out.rows[i].dkl_bin_i # Zero /\ out.rows[j].dkl_bin_i # Zero
        /\ out.rows[i].dkl_bin_i # out.rows[j].dkl_bin_i
        /\ out.rows[i].dkl_bin # out.rows[i].dkl_bin_i
        /\ out.rows[k].dkl_bin # Zero
        /\ out.rows[k].dkl_bin # out.rows[i].dkl_bin

\* calculate_dkl has returned a table
Returned == pc \notin {"raw", "clean", "dkl_raised"}

\* C6: calculate_dkl returns one row per input row in the input's order, every
\* input column with its values unchanged, and the ten new columns appended.
C6_RowsPreserved ==
    Returned =>
        /\ Len(out.rows) = Len(df.rows)
        /\ out.cols = df.cols \cup DklCols
        /\ DklCols \cap df.cols = {}
        /\ \A i \in OutIdx :
              /\ DOMAIN out.rows[i] = InputCols \cup DklCols
              /\ \A c \in InputCols : out.rows[i][c] = df.rows[i][c]

\* C6 witness: a three-row table of an empty CBSA has gone through calculate_dkl
C6_Witness ==
    /\ pc = "dkl"
    /\ Len(df.rows) = 3 /\ Len(out.rows) = 3
    /\ \A i \in OutIdx : df.rows[i].cbsa_total.v = 0

\* Sum of block_estimate over the rows of df selected by S
RECURSIVE SumEstimate(_)
SumEstimate(S) ==
    IF S = {} THEN 0
    ELSE LET j == CHOOSE j \in S : TRUE
         IN  df.rows[j].block_estimate.v + SumEstimate(S \ {j})

\* df holds valid distributions: non-negative counts, block_total the sum of the
\* block's bins, cbsa_estimate and cbsa_total the sums over the CBSA's blocks
ValidTable ==
    \A i \in 1..Len(df.rows) :
        LET r == df.rows[i]
            Idx == 1..Len(df.rows)
        IN  /\ NonNeg(r)
            /\ r.block_total.v = SumEstimate({j \in Idx :
                   /\ df.rows[j].block_fips = r.block_fips
                   /\ df.rows[j].variable_group = r.variable_group})
            /\ r.cbsa_estimate.v = SumEstimate({j \in Idx :
                   /\ df.rows[j].cbsa_fips = r.cbsa_fips
                   /\ df.rows[j].variable = r.variable})
            /\ r.cbsa_total.v = SumEstimate({j \in Idx :
                   /\ df.rows[j].cbsa_fips = r.cbsa_fips
                   /\ df.rows[j].variable_group = r.variable_group})

\* C7: over valid distributions every dkl_block and dkl_bin is >= 0 (and finite).
C7_NonNegative ==
    (Returned /\ ValidTable) =>
        \A i \in OutIdx :
            /\ IsFinite(out.rows[i].dkl_block) /\ ~Lt0(out.rows[i].dkl_block)
            /\ IsFinite(out.rows[i].dkl_bin) /\ ~Lt0(out.rows[i].dkl_bin)

\* C7 witness: a valid table with a negative per-row contribution whose dkl_block
\* and dkl_bin are nevertheless strictly positive
C7_Witness ==
    /\ Returned /\ ValidTable
    /\ \E i \in OutIdx, j \in OutIdx :
          /\ Lt0(out.rows[i].dkl_block_j) /\ Gt0(out.rows[i].dkl_block)
          /\ Lt0(out.rows[j].dkl_bin_i) /\ Gt0(out.rows[j].dkl_bin)

\* calculate_dkl has been called
Called == pc \notin {"raw", "clean"}

\* C8 as stated: on a table lacking a column it needs, calculate_dkl fails with a
\* SchemaError and returns nothing.
C8_SchemaError ==
    (Called /\ ~(DklRequired \subseteq df.cols)) => (err = "SchemaError" /\ out = NoTable)

\* C8 amended: on a table lacking one of the eight columns it reads (the four
\* counts, variable_group, block_fips, cbsa_fips, variable) calculate_dkl fails
\* with KeyError and returns nothing; with those eight present it does not fail.
C8_KeyError ==
    Called =>
        IF \E c \in {"block_estimate", "block_total", "cbsa_estimate", "cbsa_total",
                     "variable_group", "block_fips", "cbsa_fips", "variable"} : c \notin df.cols
        THEN pc = "dkl_raised" /\ err = "KeyError" /\ out = NoTable /\ mi = {}
        ELSE pc # "dkl_raised" /\ out # NoTable

\* C8 witness: the call on a table without cbsa_total has raised KeyError
C8_Witness ==
    /\ pc = "dkl_raised" /\ err = "KeyError" /\ out = NoTable
    /\ "cbsa_total" \notin df.cols
    /\ Len(df.rows) = 1

\* Defensive coercion of a cell: a missing or negative count becomes 0
Coerced(cell) == IF cell.na \/ cell.v < 0 THEN Cell(0) ELSE cell
CoercedTable(t) ==
    [cols |-> t.cols,
     rows |-> [i \in 1..Len(t.rows) |->
                 [t.rows[i] EXCEPT !.block_estimate = Coerced(@), !.block_total = Coerced(@),
                                   !.cbsa_estimate = Coerced(@), !.cbsa_total = Coerced(@)]]]

\* C9: a negative or missing count is treated as 0: every derived column of every
\* row is what calculate_dkl yields on the table with those counts replaced by 0.
C9_Coercion ==
    Returned =>
        \A i \in OutIdx : \A c \in DklCols :
            out.rows[i][c] = calculate_dkl(CoercedTable(df)).value.rows[i][c]

\* The rows get_mutual_info keeps: the first row of each (block_fips, variable_group)
Kept == {i \in OutIdx : \A j \in 1..(i - 1) : ~SameBlock(i, j)}
InMiGroup(i, m) ==
    /\ out.rows[i].cbsa_title = m.cbsa_title
    /\ out.rows[i].state_codes = m.state_codes
    /\ out.rows[i].group_label = m.group_label

RECURSIVE SumWeight(_)
SumWeight(S) ==
    IF S = {} THEN Zero
    ELSE LET j == CHOOSE j \in S : TRUE
         IN  AddF(out.rows[j].p_ni, SumWeight(S \ {j}))
RECURSIVE SumWeighted(_)
SumWeighted(S) ==
    IF S = {} THEN Zero
    ELSE LET j == CHOOSE j \in S : TRUE
         IN  AddF(MulF(out.rows[j].dkl_block, out.rows[j].p_ni), SumWeighted(S \ {j}))

\* C10: in every output group of positive total weight, avg_dkl_cbsa_pop times
\* SUM p_ni equals SUM dkl_block * p_ni over the deduplicated rows of the group;
\* with two blocks of equal p_ni the result is (d1 + d2) / 2.
C10_WeightedMean ==
    pc = "mi" =>
        \A m \in mi :
            LET G == {i \in Kept : InMiGroup(i, m)}
            IN  Gt0(SumWeight(G)) =>
                  /\ MulF(SumWeight(G), m.avg_dkl_cbsa_pop) = SumWeighted(G)
                  /\ \A i \in G, j \in G :
                        (G = {i, j} /\ i # j /\ out.rows[i].p_ni = out.rows[j].p_ni) =>
                            AddF(m.avg_dkl_cbsa_pop, m.avg_dkl_cbsa_pop)
                                = AddF(out.rows[i].dkl_block, out.rows[j].dkl_block)

\* C10 witness: a group of two blocks with equal positive p_ni, different
\* dkl_block values and a total weight other than 1
C10_Witness ==
    /\ pc = "mi"
    /\ \E m \in mi :
          LET G == {i \in Kept : InMiGroup(i, m)}
          IN  \E i \in G, j \in G :
                /\ G = {i, j} /\ i # j
                /\ Gt0(out.rows[i].p_ni) /\ out.rows[i].p_ni = out.rows[j].p_ni
                /\ SumWeight(G) # Rat(1, 1)
                /\ out.rows[i].dkl_block # out.rows[j].dkl_block
                /\ out.rows[i].dkl_block # Zero /\ out.rows[j].dkl_block # Zero
                /\ m.avg_dkl_cbsa_pop # Zero

\* The (metro, category group) pairs present in the table handed to get_mutual_info
MetroGroupPairs == {<<out.rows[i].cbsa_title, out.rows[i].group_label>> : i \in OutIdx}

\* C11: get_mutual_info emits exactly one row per distinct (metro, category group)
\* pair of its input, also for a metro whose blocks lie in several states.
C11_OneRowPerPair ==
    pc = "mi" =>
        /\ Cardinality(mi) = Cardinality(MetroGroupPairs)
        /\ \A k \in MetroGroupPairs :
              Cardinality({m \in mi : m.cbsa_title = k[1] /\ m.group_label = k[2]}) = 1

\* The table handed to get_mutual_info cut down to the first row of every
\* (block_fips, variable_group), and the same table with every row repeated
FirstRowsOnly ==
    [cols |-> out.cols,
     rows |-> SelectSeq(out.rows, LAMBDA r : \E i \in Kept : out.rows[i] = r)]
RowsTwice == [cols |-> out.cols, rows |-> out.rows \o out.rows]

\* C12: get_mutual_info reduces by deduplication: its result is the one it gives
\* on the table holding a single row per (block_fips, variable_group), and does not
\* change when every block has twice as many rows.
C12_Deduplication ==
    pc = "mi" =>
        /\ mi = get_mutual_info(FirstRowsOnly).value
        /\ mi = get_mutual_info(RowsTwice).value

\* C12 witness: a group in which one block has two bin rows and another block
\* one, both with positive weight, where the mean over all bin rows would differ
C12_Witness ==
    /\ pc = "mi"
    /\ \E m \in mi :
          LET All == {i \in OutIdx : InMiGroup(i, m)}
          IN  /\ \E i \in All, j \in All, k \in All :
                    /\ i # j /\ SameBlock(i, j) /\ ~SameBlock(i, k)
                    /\ Gt0(out.rows[i].p_ni) /\ Gt0(out.rows[k].p_ni)
                    /\ out.rows[i].dkl_block # out.rows[k].dkl_block
              /\ MulF(SumWeight(All), m.avg_dkl_cbsa_pop) # SumWeighted(All)
              /\ MulF(SumWeight(All \cap Kept), m.avg_dkl_cbsa_pop) = SumWeighted(All \cap Kept)

\* C13: when the p_ni of the deduplicated blocks of an output group sum to 0,
\* the group's avg_dkl_cbsa_pop is exactly 0 (not NaN, not an error).
C13_DegenerateZero ==
    (pc \in {"mi", "mi_raised"} /\ MiRequired \subseteq out.cols) =>
        /\ pc = "mi" /\ err = "none"
        /\ \A m \in mi :
              Eq0(SumWeight({i \in Kept : InMiGroup(i, m)})) => m.avg_dkl_cbsa_pop = Zero

\* C13 witness: a group of two populated blocks of a CBSA whose total is 0: both
\* weights are 0 and the group's value is 0
C13_Witness ==
    /\ pc = "mi"
    /\ \E m \in mi :
          LET G == {i \in Kept : InMiGroup(i, m)}
          IN  /\ Cardinality(G) = 2
              /\ \A i \in G : out.rows[i].p_ni = Zero /\ out.rows[i].block_total.v > 0
              /\ m.avg_dkl_cbsa_pop = Zero

\* The MI stage has run on the table calculate_dkl returned
MiRun == pc \in {"mi", "mi_raised", "saved", "save_returned", "save_skipped"}

\* C14 as stated: with a required column missing the MI summarizer fails with a
\* SchemaError, called directly or through save_mi_file.
C14_SchemaError ==
    (MiRun /\ ~(MiRequired \subseteq out.cols)) => err = "SchemaError"

\* C14 amended: with one of the nine columns missing, the direct call of
\* get_mutual_info fails with KeyError and returns nothing, while save_mi_file
\* raises nothing: it logs an error, returns, and writes no file.  With the nine
\* columns present neither fails and save_mi_file writes the result.
C14_KeyErrorOrLog ==
    MiRun =>
        IF \E c \in {"block_fips", "variable_group", "group_label", "block_total",
                     "dkl_block", "p_ni", "cbsa_title", "cbsa_total", "state_codes"} :
               c \notin out.cols
        THEN \/ pc = "mi_raised" /\ err = "KeyError" /\ mi = {}
                /\ saved = NoFile /\ log = <<>>
             \/ pc = "save_returned" /\ err = "none" /\ mi = {}
                /\ saved = NoFile /\ log = <<"info", "error">>
        ELSE \/ pc = "mi" /\ err = "none" /\ saved = NoFile
             \/ pc = "saved" /\ err = "none" /\ saved = [exists |-> TRUE, content |-> mi]

\* C14 witness: save_mi_file has returned on a table without state_codes, having
\* logged an error, raised nothing and written nothing
C14_Witness ==
    /\ pc = "save_returned" /\ err = "none" /\ saved = NoFile
    /\ "state_codes" \notin out.cols /\ Len(out.rows) = 1
    /\ log = <<"info", "error">>

\* C15: every avg_dkl_cbsa_pop that get_mutual_info returns is a finite number
\* (neither NaN nor infinite), whatever table calculate_dkl produced.
C15_NoNanInf ==
    (pc \in {"mi", "saved"}) => \A m \in mi : IsFinite(m.avg_dkl_cbsa_pop)

\* C15 witness: a result computed from a table whose only weight is NaN (a
\* missing block_total over a positive cbsa_total); the value is 0
C15_Witness ==
    /\ pc = "mi"
    /\ \E m \in mi : m.avg_dkl_cbsa_pop = Zero
    /\ \E i \in OutIdx : IsNaN(out.rows[i].p_ni) /\ out.rows[i].cbsa_total.v > 0

\* x > y
GtF(x, y) == Gt0(AddF(x, MulF(Rat(-1, 1), y)))

\* C16: on the table of block A (10, 90) and block B (50, 50) with cbsa_estimate
\* 60 and 140 and cbsa_total 200, p_ni is 1/2 in every row, dkl_block of A is
\* greater than dkl_block of B, and the single MI value is (dkl_block(A) +
\* dkl_block(B)) / 2.
C16_Scenario ==
    (df = ScenarioTable /\ Returned) =>
        /\ Len(out.rows) = 4
        /\ \A i \in OutIdx : out.rows[i].p_ni = Rat(1, 2)
        /\ out.rows[1].block_fips = "A" /\ out.rows[2].dkl_block = out.rows[1].dkl_block
        /\ out.rows[3].block_fips = "B" /\ out.rows[4].dkl_block = out.rows[3].dkl_block
        /\ GtF(out.rows[1].dkl_block, out.rows[3].dkl_block)
        /\ Gt0(out.rows[3].dkl_block)
        /\ pc \in {"mi", "saved"} =>
              /\ Cardinality(mi) = 1
              /\ \A m \in mi :
                    AddF(m.avg_dkl_cbsa_pop, m.avg_dkl_cbsa_pop)
                        = AddF(out.rows[1].dkl_block, out.rows[3].dkl_block)

\* C16 witness: get_mutual_info has run on the scenario's table
C16_Witness ==
    /\ df = ScenarioTable /\ pc = "mi"
    /\ \E m \in mi : Gt0(m.avg_dkl_cbsa_pop)
                      /\ GtF(out.rows[1].dkl_block, m.avg_dkl_cbsa_pop)
                      /\ GtF(m.avg_dkl_cbsa_pop, out.rows[3].dkl_block)

\* The rows of a table that belong to one variable_group / one group_label
OfGroup(t, g) ==
    [cols |-> t.cols, rows |-> SelectSeq(t.rows, LAMBDA r : r.variable_group = g)]
OfLabel(t, l) ==
    [cols |-> t.cols, rows |-> SelectSeq(t.rows, LAMBDA r : r.group_label = l)]

\* C17: for every variable_group the rows calculate_dkl returns for it are the
\* rows it returns when run on that group's rows alone, and for every category
\* group the MI rows are those get_mutual_info returns on that group's rows alone.
C17_CategoryIndependence ==
    Returned =>
        /\ \A g \in {GroupOf(v) : v \in Vars} :
              calculate_dkl(OfGroup(df, g)).value.rows = OfGroup(out, g).rows
        /\ pc \in {"mi", "saved"} =>
              \A l \in {LabelOf(v) : v \in Vars} :
                  get_mutual_info(OfLabel(out, l)).value = {m \in mi : m.group_label = l}

\* C17 witness: one block with rows in two variable groups, a non-zero dkl_block
\* in each, and two MI rows with different values
C17_Witness ==
    /\ pc = "mi"
    /\ \E i \in OutIdx, j \in OutIdx :
          /\ out.rows[i].block_fips = out.rows[j].block_fips
          /\ out.rows[i].variable_group # out.rows[j].variable_group
          /\ out.rows[i].dkl_block # Zero /\ out.rows[j].dkl_block # Zero
          /\ out.rows[i].dkl_block # out.rows[j].dkl_block
    /\ \E m \in mi, n \in mi :
          /\ m.group_label # n.group_label
          /\ m.avg_dkl_cbsa_pop # Zero /\ n.avg_dkl_cbsa_pop # Zero
          /\ m.avg_dkl_cbsa_pop # n.avg_dkl_cbsa_pop

BlocksOfMetro(m) ==
    {i \in Kept : /\ out.rows[i].cbsa_title = m.cbsa_title
                  /\ out.rows[i].group_label = m.group_label}

\* C19: the value reported for a CBSA and group is SUM p_ni * dkl_block over the
\* deduplicated blocks of that CBSA and group, and the weights p_ni of every
\* output group sum to 1.
C19_UnnormalisedSum ==
    pc \in {"mi", "saved"} =>
        \A m \in mi :
            /\ m.avg_dkl_cbsa_pop = SumWeighted(BlocksOfMetro(m))
            /\ SumWeight({i \in Kept : InMiGroup(i, m)}) = Rat(1, 1)

\* C20: in the table join_metro_data returns, block_total of every row is the
\* sum of block_estimate over the rows of its (block_fips, variable_group),
\* cbsa_estimate the sum over the rows of its (cbsa_fips, variable), cbsa_total the
\* sum over the rows of its (cbsa_fips, variable_group), and cbsa_estimate <=
\* cbsa_total.
C20_DataModel ==
    pc # "raw" =>
        \A i \in 1..Len(df.rows) :
            LET r == df.rows[i]
                Idx == 1..Len(df.rows)
            IN  /\ NoMissing(r)
                /\ r.block_total.v = SumEstimate({j \in Idx :
                       /\ df.rows[j].block_fips = r.block_fips
                       /\ df.rows[j].variable_group = r.variable_group})
                /\ r.cbsa_estimate.v = SumEstimate({j \in Idx :
                       /\ df.rows[j].cbsa_fips = r.cbsa_fips
                       /\ df.rows[j].variable = r.variable})
                /\ r.cbsa_total.v = SumEstimate({j \in Idx :
                       /\ df.rows[j].cbsa_fips = r.cbsa_fips
                       /\ df.rows[j].variable_group = r.variable_group})
                /\ r.cbsa_estimate.v <= r.cbsa_total.v

\* C21: every count of the table join_metro_data returns (block_estimate,
\* block_total, cbsa_estimate, cbsa_total) is present and >= 0, whatever the raw
\* estimates were (missing or negative ones included).
C21_CountsNonNegative ==
    pc # "raw" => \A i \in 1..Len(df.rows) : NonNeg(df.rows[i])

\* The counties of the crosswalk, and the raw rows whose county is one of them
XwalkCounties == {xwalk[i].county_fips : i \in 1..Len(xwalk)}
MetroRaw == SelectSeq(raw, LAMBDA q : CountyOf(q.geoid) \in XwalkCounties)
HasCbsa(r) == r.cbsa_fips \notin {NaStr, "", " "}

One == Rat(1, 1)
\* 0 <= p <= 1
InUnit(p) == IsFinite(p) /\ ~Lt0(p) /\ ~GtF(p, One)

\* C25: in every row whose counts satisfy 0 <= block_estimate <= block_total <=
\* cbsa_total and block_estimate <= cbsa_estimate <= cbsa_total, each of p_ni,
\* p_ni_yj, p_yj and p_yj_ni lies in [0, 1].
C25_ProbabilityRange ==
    \A i \in OutIdx :
        LET r == out.rows[i]
        IN  Ordered(r) =>
              InUnit(r.p_ni) /\ InUnit(r.p_ni_yj) /\ InUnit(r.p_yj) /\ InUnit(r.p_yj_ni)

\* C25 witness: an ordered row with two probabilities at the upper end (1) and
\* two strictly inside, next to a row whose counts are not ordered and whose
\* p_yj_ni exceeds 1
C25_Witness ==
    \E i \in OutIdx, j \in OutIdx :
        LET r == out.rows[i]
            q == out.rows[j]
        IN  /\ Ordered(r)
            /\ r.p_yj_ni = One /\ r.p_yj = One
            /\ r.p_ni = Rat(1, 2) /\ r.p_ni_yj = Rat(1, 2)
            /\ NonNeg(q) /\ ~Ordered(q) /\ GtF(q.p_yj_ni, One)

\* C26: in every row with non-negative counts dkl_log_i is > 0 exactly when
\* p_yj > 0 and p_yj_ni > p_yj, < 0 exactly when 0 < p_yj_ni < p_yj, and 0 when
\* the two are equal or either is 0; likewise dkl_log_j with p_ni_yj against p_ni.
C26_LogSign ==
    \A i \in OutIdx :
        LET r == out.rows[i]
        IN  NonNeg(r) =>
              /\ Gt0(r.dkl_log_i) <=> (Gt0(r.p_yj) /\ GtF(r.p_yj_ni, r.p_yj))
              /\ Lt0(r.dkl_log_i) <=> (Gt0(r.p_yj_ni) /\ GtF(r.p_yj, r.p_yj_ni))
              /\ (r.p_yj_ni = r.p_yj \/ Eq0(r.p_yj) \/ Eq0(r.p_yj_ni)) => r.dkl_log_i = Zero
              /\ Gt0(r.dkl_log_j) <=> (Gt0(r.p_ni) /\ GtF(r.p_ni_yj, r.p_ni))
              /\ Lt0(r.dkl_log_j) <=> (Gt0(r.p_ni_yj) /\ GtF(r.p_ni, r.p_ni_yj))
              /\ (r.p_ni_yj = r.p_ni \/ Eq0(r.p_ni) \/ Eq0(r.p_ni_yj)) => r.dkl_log_j = Zero

\* C26 witness: one table with a row over-represented in its block (both logs
\* > 0), a row under-represented (both logs < 0) and a row with an empty bin of a
\* populated block (p_yj_ni = 0 < p_yj, log 0)
C26_Witness ==
    \E i \in OutIdx, j \in OutIdx, k \in OutIdx :
        LET r == out.rows[i]
            q == out.rows[j]
            z == out.rows[k]
        IN  /\ NonNeg(r) /\ NonNeg(q) /\ NonNeg(z)
            /\ Gt0(r.dkl_log_i) /\ Gt0(r.dkl_log_j)
            /\ Lt0(q.dkl_log_i) /\ Lt0(q.dkl_log_j)
            /\ Eq0(z.p_yj_ni) /\ Gt0(z.p_yj) /\ z.block_total.v > 0 /\ z.dkl_log_i = Zero

\* The rows of out in one CBSA and variable group
MetroGroupRows(c, g) ==
    {i \in OutIdx : out.rows[i].cbsa_fips = c /\ out.rows[i].variable_group = g}
\* Every row of the set has the CBSA's bin distribution
SameDistribution(G) ==
    \A i \in G :
        LET r == out.rows[i]
        IN  /\ NoMissing(r)
            /\ r.block_estimate.v * r.cbsa_total.v = r.cbsa_estimate.v * r.block_total.v

\* C27: when every row of one CBSA and variable group satisfies block_estimate *
\* cbsa_total = cbsa_estimate * block_total, dkl_block and dkl_bin are 0 on each
\* of those rows and every MI value of that CBSA and group is 0.
C27_NoSegregation ==
    Returned =>
        \A c \in {CbsaOf(b) : b \in Blocks}, g \in {GroupOf(v) : v \in Vars} :
            LET G == MetroGroupRows(c, g)
            IN  SameDistribution(G) =>
                  /\ \A i \in G : out.rows[i].dkl_block = Zero /\ out.rows[i].dkl_bin = Zero
                  /\ pc \in {"mi", "saved"} =>
                        \A m \in mi :
                            (\E i \in G : InMiGroup(i, m)) => m.avg_dkl_cbsa_pop = Zero

\* C27 witness: two populated blocks of different weight with the CBSA's
\* distribution (half of each block in the bin), and an MI value of 0
C27_Witness ==
    /\ pc = "mi"
    /\ \E c \in {CbsaOf(b) : b \in Blocks}, g \in {GroupOf(v) : v \in Vars} :
          LET G == MetroGroupRows(c, g)
          IN  /\ SameDistribution(G)
              /\ \E i \in G, j \in G :
                    /\ out.rows[i].block_fips # out.rows[j].block_fips
                    /\ out.rows[i].p_yj_ni = Rat(1, 2) /\ out.rows[j].p_yj_ni = Rat(1, 2)
                    /\ out.rows[i].p_yj = Rat(1, 2)
                    /\ Gt0(out.rows[i].p_ni) /\ Gt0(out.rows[j].p_ni)
              /\ \E m \in mi : (\E i \in G : InMiGroup(i, m)) /\ m.avg_dkl_cbsa_pop = Zero

\* The DKL and MI paths of the k-th combination of stage 4's main loop
DklPathOf(k) == S4_dkl_path(MiCombos[k].yr, MiCombos[k].vg)
MiPathOf(k) == S4_mi_path(MiCombos[k].yr, MiCombos[k].vg)
\* The file at p is the same before and after the step (absent, or the same content)
SameFile(p) ==
    IF Exists(fs, p) THEN Exists(fs', p) /\ fs'[p] = fs[p] ELSE ~Exists(fs', p)

\* C23: in a run of stage 4, every call of save_mi_file whose DKL file does not
\* exist logs a warning and nothing else, raises nothing and leaves the MI file of
\* its combination as it was (none is written), and the run goes on to the next
\* combination.
C23_MissingDklWarns ==
    [][call'.fn = "4_mutual_info" =>
          /\ \A k \in 1..Len(log') :
                ~Exists(fs, DklPathOf(k)) =>
                    /\ log'[k] = <<"warning">>
                    /\ k = Len(log') => err' = "none"
                    /\ k < Len(MiCombos) => Len(log') > k
          /\ \A k \in 1..Len(MiCombos) : ~Exists(fs, DklPathOf(k)) => SameFile(MiPathOf(k))]_vars

\* C23 witness: a run of stage 4 in which the first combination (income, 10) had
\* no DKL file: a warning, no MI file for it, all twelve calls made, and the MI
\* file of the fourth combination (race, 10) written
C23_Witness ==
    /\ call.fn = "4_mutual_info" /\ err = "none"
    /\ Len(log) = Len(MiCombos)
    /\ MiCombos[1] = [vg |-> "income", yr |-> <<"1", "0">>]
    /\ ~Exists(fs, DklPathOf(1)) /\ ~Exists(fs, MiPathOf(1))
    /\ log[1] = <<"warning">>
    /\ MiCombos[4] = [vg |-> "race", yr |-> <<"1", "0">>]
    /\ log[4] = <<"info", "info">>
    /\ Exists(fs, MiPathOf(4)) /\ fs[MiPathOf(4)] # {}

\* C24: a run of download_year, clean_year, run_dkl_for_year or of stage 4
\* (save_mi_file for every combination) never removes or changes a file that
\* exists: every file keeps the content its first writer gave it, also when the
\* file it was computed from has been replaced since.
C24_SkipIfExists ==
    [][call'.fn \in {"download_year", "clean_year", "run_dkl_for_year", "4_mutual_info"} =>
          \A p \in DOMAIN fs : Exists(fs', p) /\ fs'[p] = fs[p]]_vars

\* C24 witness: stage 4 has just run again and skipped (income, 10): the MI file
\* exists, and it is not what get_mutual_info yields on the DKL file as it is now
\* (stage 3 has replaced the DKL file since the MI file was written)
C24_Witness ==
    /\ call.fn = "4_mutual_info" /\ err = "none"
    /\ Exists(fs, DklPathOf(1)) /\ Exists(fs, MiPathOf(1))
    /\ log[1] = <<"info">>
    /\ fs[MiPathOf(1)] # {}
    /\ fs[MiPathOf(1)] # get_mutual_info(fs[DklPathOf(1)]).value

\* C28: for every configured ACS year and variable group the path clean_year
\* writes is the path run_dkl_for_year reads, and the path run_dkl_for_year writes
\* is the path save_mi_file reads for the year's last two digits; the path stage 3
\* writes for the 2020 crosswalk is the path save_mi_file reads for (income, 10).
\* Accordingly run_dkl_for_year never misses a clean file that exists, and
\* save_mi_file never misses a DKL file stage 2 or stage 3 has written.
C28_PathsAgree ==
    /\ \A Y \in AcsYears, g \in VarGroups :
          /\ S1_clean_path(Y, g) = S2_clean_path(Y, g)
          /\ S2_dkl_path(Y, g) = S4_dkl_path(YrShort(Y), g)
    /\ S3_out_path(2020) = S4_dkl_path(<<"1", "0">>, "income")
    /\ (call.fn = "run_dkl_for_year" /\ Exists(fs, S1_clean_path(call.year, call.vg)))
          => log # <<<<"error">>>>
    /\ call.fn = "4_mutual_info" =>
          \A k \in 1..Len(log) :
              (\/ \E Y \in AcsYears : /\ MiCombos[k].yr = YrShort(Y)
                                      /\ Exists(fs, S2_dkl_path(Y, MiCombos[k].vg))
               \/ k = 1 /\ Exists(fs, S3_out_path(2020)))
                  => log[k] # <<"warning">>

\* C28 witness: stage 4 has written the MI file of (income, 10) from a DKL file
\* only stage 3 can have written (there is no clean income file), and the MI file
\* of (race, 10) from the DKL file stage 2 had written
C28_Witness ==
    /\ call.fn = "4_mutual_info" /\ err = "none"
    /\ Exists(fs, S3_out_path(2020)) /\ ~Exists(fs, S1_clean_path(2010, "income"))
    /\ Exists(fs, MiPathOf(1)) /\ log[1] = <<"info", "info">>
    /\ Exists(fs, S2_dkl_path(2010, "race"))
    /\ Exists(fs, MiPathOf(4)) /\ log[4] = <<"info", "info">>

\* What stage 3 computes for the 2020 crosswalk from the CSV of the file system f
Stage3Result(f) ==
    calc_dkl_income_2010(
        join_with_cbsa(load_2010_income(f[CsvPath]), get_cbsa_xwalk(Delineation(2020)))).value

\* C29: stage 2 for (2010, income) and stage 3 write the same path.  A run of
\* stage 3 (with its CSV present) leaves the stage-3 result there whatever was
\* there before; a run of run_dkl_for_year(2010, [income]) writes only when the
\* file is absent.  So once stage 3 has run the file holds the stage-3 result
\* for good, and stage 2's result stays only until stage 3 runs.
C29_Stage3Overwrites ==
    [][LET p == S3_out_path(2020)
       IN  /\ S2_dkl_path(2010, "income") = p
           /\ (call'.fn = "3_income_2010" /\ Exists(fs, CsvPath))
                 => Exists(fs', p) /\ fs'[p] = Stage3Result(fs)
           /\ (call' = [fn |-> "run_dkl_for_year", year |-> 2010, vg |-> "income"])
                 => IF Exists(fs, p) THEN fs' = fs
                    ELSE Exists(fs, S2_clean_path(2010, "income"))
                            => fs'[p] = calculate_dkl(fs[S2_clean_path(2010, "income")]).value
           /\ Exists(fs', S3_out_path(2009)) => fs'[p] = Stage3Result(fs')]_vars

\* C29 witness: stage 2 wrote the file first (the MI file computed from it is
\* still there), stage 3 replaced it, and a later run_dkl_for_year(2010,
\* [income]) has left the stage-3 result in place
C29_Witness ==
    LET p == S3_out_path(2020)
        clean == S2_clean_path(2010, "income")
    IN  /\ call = [fn |-> "run_dkl_for_year", year |-> 2010, vg |-> "income"]
        /\ log = <<<<"info">>>>
        /\ Exists(fs, CsvPath) /\ Exists(fs, clean) /\ Exists(fs, p) /\ Exists(fs, MiPathOf(1))
        /\ fs[p] = Stage3Result(fs)
        /\ fs[p] # calculate_dkl(fs[clean]).value
        /\ fs[MiPathOf(1)] = get_mutual_info(calculate_dkl(fs[clean]).value).value
        /\ fs[MiPathOf(1)] # get_mutual_info(fs[p]).value

\* The rows of the states in got, in the order of STATE_CODES
RowsOfStates(vg, got) ==
    (IF "IL" \in got THEN fetch_block_group_data(vg, "IL") ELSE <<>>)
    \o (IF "IN" \in got THEN fetch_block_group_data(vg, "IN") ELSE <<>>)
NumErrors(levels) == Cardinality({i \in 1..Len(levels) : levels[i] = "error"})

\* C30: a download_year call whose output file is absent writes the file with
\* exactly the rows of the states whose request succeeded (none, possibly),
\* having logged one error per failed state and raised nothing; a call whose
\* output file exists changes nothing and fetches nothing, however few states
\* the file holds.
C30_PartialDownloadsStay ==
    [][call'.fn = "download_year" =>
          LET p == S0_out_path(call'.year, call'.vg)
          IN  IF Exists(fs, p)
              THEN fs' = fs /\ log' = <<<<"info">>>> /\ err' = "none"
              ELSE /\ Exists(fs', p)
                   /\ LET got == {fs'[p][i].state : i \in 1..Len(fs'[p])}
                      IN  /\ fs'[p] = RowsOfStates(call'.vg, got)
                          /\ NumErrors(log'[1]) = Cardinality(States \ got)
                   /\ err' = "none"]_vars

\* C30 witness: download_year(2010, [income]) has just skipped a file that holds
\* the rows of IL alone (the request for IN had failed when it was written)
C30_Witness ==
    LET p == S0_out_path(2010, "income")
    IN  /\ call = [fn |-> "download_year", year |-> 2010, vg |-> "income"]
        /\ log = <<<<"info">>>>
        /\ Exists(fs, p)
        /\ Len(fs[p]) = 2
        /\ \A i \in 1..Len(fs[p]) : fs[p][i].state = "IL"

====
